---- MODULE Spec2Model ----
(***************************************************************************)
(* dbmigrate: ordered, versioned SQL migration files applied to a backend  *)
(* (src/main.go).  Text is modelled as a sequence of one-character         *)
(* strings, so the splitter, the header parser and the manifest resolver   *)
(* work on characters exactly as the Go code works on runes.               *)
(***************************************************************************)
EXTENDS Integers, Sequences, FiniteSets, Bags, TLC

(***************************************************************************)
(* Bounds of the model.                                                    *)
(***************************************************************************)
\* number of invocations of run() in one behaviour
MaxRuns == 2
\* number of times a SQL file is rewritten on disk between two runs
MaxEdits == 1
\* number of backend calls that fail in one behaviour
MaxFaults == 1
\* length of the longest text given to splitSQLStatements on its own
MaxLen == 4
\* number of lines of the longest manifest given to processWithWriter on
\* its own
MaxLines == 2
\* number of calls of processWithWriter that can be active at a time
MaxDepth == 4
\* number of rows the query of getAppliedMigrations on its own returns
MaxRows == 3

(***************************************************************************)
(* Text helpers: the Go standard library calls the code relies on.         *)
(***************************************************************************)
\* unicode.IsSpace restricted to the characters of the model
IsSpace(ch) == ch \in {" ", "\n", "\t", "\r"}

RECURSIVE TrimLeft(_)
TrimLeft(s) ==
    IF s = <<>> THEN <<>>
    ELSE IF IsSpace(Head(s)) THEN TrimLeft(Tail(s)) ELSE s

RECURSIVE TrimRight(_)
TrimRight(s) ==
    IF s = <<>> THEN <<>>
    ELSE IF IsSpace(s[Len(s)]) THEN TrimRight(SubSeq(s, 1, Len(s) - 1)) ELSE s

\* strings.TrimSpace
TrimSpace(s) == TrimRight(TrimLeft(s))

\* strings.HasPrefix
HasPrefix(s, p) == Len(s) >= Len(p) /\ SubSeq(s, 1, Len(p)) = p

\* strings.HasSuffix
HasSuffix(s, p) == Len(s) >= Len(p) /\ SubSeq(s, Len(s) - Len(p) + 1, Len(s)) = p

\* bufio.Scanner with ScanLines: split at "\n", drop one trailing "\r" of a
\* line, no empty line after the last "\n"
DropCR(l) == IF l # <<>> /\ l[Len(l)] = "\r" THEN SubSeq(l, 1, Len(l) - 1) ELSE l

RECURSIVE ScanLinesFrom(_, _)
ScanLinesFrom(s, cur) ==
    IF s = <<>> THEN (IF cur = <<>> THEN <<>> ELSE <<DropCR(cur)>>)
    ELSE IF Head(s) = "\n" THEN <<DropCR(cur)>> \o ScanLinesFrom(Tail(s), <<>>)
    ELSE ScanLinesFrom(Tail(s), Append(cur, Head(s)))

ScanLines(s) == ScanLinesFrom(s, <<>>)

(***************************************************************************)
(* splitSQLStatements (src/main.go:578-656): a scanner over the runes with *)
(* four mode flags and one rune of lookahead.                              *)
(***************************************************************************)
ScanInit ==
    [i |-> 1, current |-> <<>>, statements |-> <<>>,
     inSingleQuote |-> FALSE, inDoubleQuote |-> FALSE,
     inLineComment |-> FALSE, inBlockComment |-> FALSE]

\* EmitStatement that appends the segment as it is
EmitStatement_Untrimmed(stmts, current) ==
    IF TrimSpace(current) # <<>> THEN Append(stmts, current) ELSE stmts

\* EmitStatement that keeps an empty statement
EmitStatement_KeepEmpty(stmts, current) == Append(stmts, TrimSpace(current))

\* EmitStatement that drops a segment holding nothing but a line comment
EmitStatement_DropComments(stmts, current) ==
    LET stmt == TrimSpace(current)
    IN IF stmt = <<>> \/ (HasPrefix(stmt, <<"-", "-">>) /\ \A n \in DOMAIN stmt : stmt[n] # "\n")
       THEN stmts
       ELSE Append(stmts, stmt)

\* the emit of lines 638-641 and 650-653: trimmed, dropped when empty
EmitStatement(stmts, current) ==
    IF TrimSpace(current) # <<>> THEN Append(stmts, TrimSpace(current))
    ELSE stmts

\* ScanStep that toggles the quote flags inside comments too
ScanStep_QuoteInComment(runes, st) ==
    LET i == st.i
        ch == runes[i]
        nextIs(c) == i + 1 <= Len(runes) /\ runes[i + 1] = c
        write == [st EXCEPT !.i = i + 1, !.current = Append(st.current, ch)]
    IN IF ~st.inSingleQuote /\ ~st.inDoubleQuote /\ ~st.inBlockComment
          /\ ch = "-" /\ nextIs("-")
       THEN [write EXCEPT !.inLineComment = TRUE]
       ELSE IF st.inLineComment /\ ch \in {"\n", "\r"}
       THEN [write EXCEPT !.inLineComment = FALSE]
       ELSE IF ~st.inSingleQuote /\ ~st.inDoubleQuote /\ ~st.inLineComment
               /\ ch = "/" /\ nextIs("*")
       THEN [write EXCEPT !.inBlockComment = TRUE]
       ELSE IF st.inBlockComment /\ ch = "*" /\ nextIs("/")
       THEN [st EXCEPT !.i = i + 2, !.inBlockComment = FALSE,
                       !.current = st.current \o <<ch, runes[i + 1]>>]
       ELSE LET escaped == i > 1 /\ runes[i - 1] = "\\"
                inMode == FALSE
                isSQ == ~inMode /\ ch = "'" /\ ~st.inDoubleQuote
                isDQ == ~inMode /\ ~isSQ /\ ch = "\"" /\ ~st.inSingleQuote
            IN IF (isSQ \/ isDQ) /\ escaped THEN write
               ELSE LET sq == IF isSQ THEN ~st.inSingleQuote ELSE st.inSingleQuote
                        dq == IF isDQ THEN ~st.inDoubleQuote ELSE st.inDoubleQuote
                    IN IF ch = ";" /\ ~sq /\ ~dq /\ ~st.inLineComment
                          /\ ~st.inBlockComment
                       THEN [st EXCEPT !.i = i + 1, !.current = <<>>,
                                       !.inSingleQuote = sq, !.inDoubleQuote = dq,
                                       !.statements =
                                           EmitStatement(st.statements, st.current)]
                       ELSE [write EXCEPT !.inSingleQuote = sq,
                                          !.inDoubleQuote = dq]

\* ScanStep that opens a line comment inside a string literal too
ScanStep_CommentInLiteral(runes, st) ==
    LET i == st.i
        ch == runes[i]
        nextIs(c) == i + 1 <= Len(runes) /\ runes[i + 1] = c
        write == [st EXCEPT !.i = i + 1, !.current = Append(st.current, ch)]
    IN IF ~st.inBlockComment /\ ch = "-" /\ nextIs("-")
       THEN [write EXCEPT !.inLineComment = TRUE]
       ELSE IF st.inLineComment /\ ch \in {"\n", "\r"}
       THEN [write EXCEPT !.inLineComment = FALSE]
       ELSE IF ~st.inSingleQuote /\ ~st.inDoubleQuote /\ ~st.inLineComment
               /\ ch = "/" /\ nextIs("*")
       THEN [write EXCEPT !.inBlockComment = TRUE]
       ELSE IF st.inBlockComment /\ ch = "*" /\ nextIs("/")
       THEN [st EXCEPT !.i = i + 2, !.inBlockComment = FALSE,
                       !.current = st.current \o <<ch, runes[i + 1]>>]
       ELSE LET escaped == i > 1 /\ runes[i - 1] = "\\"
                inMode == st.inLineComment \/ st.inBlockComment
                isSQ == ~inMode /\ ch = "'" /\ ~st.inDoubleQuote
                isDQ == ~inMode /\ ~isSQ /\ ch = "\"" /\ ~st.inSingleQuote
            IN IF (isSQ \/ isDQ) /\ escaped THEN write
               ELSE LET sq == IF isSQ THEN ~st.inSingleQuote ELSE st.inSingleQuote
                        dq == IF isDQ THEN ~st.inDoubleQuote ELSE st.inDoubleQuote
                    IN IF ch = ";" /\ ~sq /\ ~dq /\ ~st.inLineComment
                          /\ ~st.inBlockComment
                       THEN [st EXCEPT !.i = i + 1, !.current = <<>>,
                                       !.inSingleQuote = sq, !.inDoubleQuote = dq,
                                       !.statements =
                                           EmitStatement(st.statements, st.current)]
                       ELSE [write EXCEPT !.inSingleQuote = sq,
                                          !.inDoubleQuote = dq]

\* ScanStep that takes no backslash for an escape
ScanStep_NoEscape(runes, st) ==
    LET i == st.i
        ch == runes[i]
        nextIs(c) == i + 1 <= Len(runes) /\ runes[i + 1] = c
        write == [st EXCEPT !.i = i + 1, !.current = Append(st.current, ch)]
    IN IF ~st.inSingleQuote /\ ~st.inDoubleQuote /\ ~st.inBlockComment
          /\ ch = "-" /\ nextIs("-")
       THEN [write EXCEPT !.inLineComment = TRUE]
       ELSE IF st.inLineComment /\ ch \in {"\n", "\r"}
       THEN [write EXCEPT !.inLineComment = FALSE]
       ELSE IF ~st.inSingleQuote /\ ~st.inDoubleQuote /\ ~st.inLineComment
               /\ ch = "/" /\ nextIs("*")
       THEN [write EXCEPT !.inBlockComment = TRUE]
       ELSE IF st.inBlockComment /\ ch = "*" /\ nextIs("/")
       THEN [st EXCEPT !.i = i + 2, !.inBlockComment = FALSE,
                       !.current = st.current \o <<ch, runes[i + 1]>>]
       ELSE LET escaped == FALSE
                inMode == st.inLineComment \/ st.inBlockComment
                isSQ == ~inMode /\ ch = "'" /\ ~st.inDoubleQuote
                isDQ == ~inMode /\ ~isSQ /\ ch = "\"" /\ ~st.inSingleQuote
            IN IF (isSQ \/ isDQ) /\ escaped THEN write
               ELSE LET sq == IF isSQ THEN ~st.inSingleQuote ELSE st.inSingleQuote
                        dq == IF isDQ THEN ~st.inDoubleQuote ELSE st.inDoubleQuote
                    IN IF ch = ";" /\ ~sq /\ ~dq /\ ~st.inLineComment
                          /\ ~st.inBlockComment
                       THEN [st EXCEPT !.i = i + 1, !.current = <<>>,
                                       !.inSingleQuote = sq, !.inDoubleQuote = dq,
                                       !.statements =
                                           EmitStatement(st.statements, st.current)]
                       ELSE [write EXCEPT !.inSingleQuote = sq,
                                          !.inDoubleQuote = dq]

\* one iteration of the for loop at line 585, on rune runes[st.i]
ScanStep(runes, st) ==
    LET i == st.i
        ch == runes[i]
        nextIs(c) == i + 1 <= Len(runes) /\ runes[i + 1] = c
        write == [st EXCEPT !.i = i + 1, !.current = Append(st.current, ch)]
    IN IF ~st.inSingleQuote /\ ~st.inDoubleQuote /\ ~st.inBlockComment
          /\ ch = "-" /\ nextIs("-")
       THEN [write EXCEPT !.inLineComment = TRUE]
       ELSE IF st.inLineComment /\ ch \in {"\n", "\r"}
       THEN [write EXCEPT !.inLineComment = FALSE]
       ELSE IF ~st.inSingleQuote /\ ~st.inDoubleQuote /\ ~st.inLineComment
               /\ ch = "/" /\ nextIs("*")
       THEN [write EXCEPT !.inBlockComment = TRUE]
       ELSE IF st.inBlockComment /\ ch = "*" /\ nextIs("/")
       THEN [st EXCEPT !.i = i + 2, !.inBlockComment = FALSE,
                       !.current = st.current \o <<ch, runes[i + 1]>>]
       ELSE LET escaped == i > 1 /\ runes[i - 1] = "\\"
                inMode == st.inLineComment \/ st.inBlockComment
                isSQ == ~inMode /\ ch = "'" /\ ~st.inDoubleQuote
                isDQ == ~inMode /\ ~isSQ /\ ch = "\"" /\ ~st.inSingleQuote
            IN IF (isSQ \/ isDQ) /\ escaped THEN write
               ELSE LET sq == IF isSQ THEN ~st.inSingleQuote ELSE st.inSingleQuote
                        dq == IF isDQ THEN ~st.inDoubleQuote ELSE st.inDoubleQuote
                    IN IF ch = ";" /\ ~sq /\ ~dq /\ ~st.inLineComment
                          /\ ~st.inBlockComment
                       THEN [st EXCEPT !.i = i + 1, !.current = <<>>,
                                       !.inSingleQuote = sq, !.inDoubleQuote = dq,
                                       !.statements =
                                           EmitStatement(st.statements, st.current)]
                       ELSE [write EXCEPT !.inSingleQuote = sq,
                                          !.inDoubleQuote = dq]

RECURSIVE ScanAll(_, _)
ScanAll(runes, st) ==
    IF st.i > Len(runes) THEN st ELSE ScanAll(runes, ScanStep(runes, st))

splitSQLStatements(sql) ==
    LET st == ScanAll(sql, ScanInit)
    IN EmitStatement(st.statements, st.current)

(***************************************************************************)
(* parseMigrationInfo (src/main.go:343-378).                               *)
(***************************************************************************)
VersionKey == <<"v", "e", "r", "s", "i", "o", "n", ":">>
DescriptionKey == <<"d", "e", "s", "c", "r", "i", "p", "t", "i", "o", "n", ":">>

\* lineCount < 10 at line 360
HeaderLines == 10

\* regexp ^--\s*<key>\s*(.+)$ on one line, followed by strings.TrimSpace of
\* the group: <<TRUE, value>> on a match, <<FALSE, <<>>>> otherwise.  The
\* group needs one character at least; \s* gives back what (.+) needs, so
\* the trimmed group is the trimmed rest of the line after the key.
HeaderMatch(line, key) ==
    IF ~HasPrefix(line, <<"-", "-">>) THEN <<FALSE, <<>>>>
    ELSE LET afterDashes == TrimLeft(SubSeq(line, 3, Len(line)))
         IN IF ~HasPrefix(afterDashes, key) THEN <<FALSE, <<>>>>
            ELSE LET rest == SubSeq(afterDashes, Len(key) + 1, Len(afterDashes))
                 IN IF rest = <<>> THEN <<FALSE, <<>>>>
                    ELSE <<TRUE, TrimSpace(rest)>>

\* the loop of lines 360-375 from line number n on
RECURSIVE ScanHeader(_, _, _)
ScanHeader(lines, n, found) ==
    IF n > Len(lines) \/ n > HeaderLines THEN found
    ELSE LET v == HeaderMatch(lines[n], VersionKey)
             d == HeaderMatch(lines[n], DescriptionKey)
             i1 == IF v[1] THEN [found EXCEPT !.Version = v[2]] ELSE found
             i2 == IF d[1] THEN [i1 EXCEPT !.Description = d[2]] ELSE i1
         IN IF i2.Version # <<>> /\ i2.Description # <<>> THEN i2
            ELSE ScanHeader(lines, n + 1, i2)

\* md5.Sum + hex.EncodeToString, idealised as a collision-free digest of the
\* complete content; never equal to the empty checksum of an unread file
md5Sum(content) == <<"md5">> \o content

\* filepath.Base for slash-separated paths without a trailing slash
RECURSIVE Base(_)
Base(path) ==
    IF \E j \in 1..Len(path) : path[j] = "/"
    THEN Base(Tail(path)) ELSE path

\* filepath.Dir for slash-separated relative paths: "." without a slash
RECURSIVE Dir(_)
Dir(path) ==
    IF path = <<>> THEN <<".">>
    ELSE IF path[Len(path)] = "/" THEN SubSeq(path, 1, Len(path) - 1)
    ELSE Dir(SubSeq(path, 1, Len(path) - 1))

\* filepath.Join(dir, name) for names without "." or ".." elements
Join(dir, name) == IF dir = <<".">> THEN name ELSE dir \o <<"/">> \o name

\* parseMigrationInfo that also reads the line after the window
ParseContent_ElevenLines(path, content) ==
    LET lines == ScanLines(content)
        first == ScanHeader(lines, 1,
                            [Version |-> <<>>, Description |-> <<>>,
                             Filename |-> Base(path), Checksum |-> md5Sum(content)])
    IN IF Len(lines) <= HeaderLines \/ (first.Version # <<>> /\ first.Description # <<>>)
       THEN first
       ELSE ScanHeader(<<lines[HeaderLines + 1]>>, 1, first)

\* parseMigrationInfo that hashes the path together with the content
ParseContent_PathInChecksum(path, content) ==
    ScanHeader(ScanLines(content), 1,
               [Version |-> <<>>, Description |-> <<>>,
                Filename |-> Base(path), Checksum |-> md5Sum(path \o content)])

\* parseMigrationInfo that hashes the file name before the content
ParseContent_NameInChecksum(path, content) ==
    ScanHeader(ScanLines(content), 1,
               [Version |-> <<>>, Description |-> <<>>,
                Filename |-> Base(path), Checksum |-> md5Sum(Base(path) \o content)])

\* the part of parseMigrationInfo after a successful os.ReadFile
ParseContent(path, content) ==
    ScanHeader(ScanLines(content), 1,
               [Version |-> <<>>, Description |-> <<>>,
                Filename |-> Base(path), Checksum |-> md5Sum(content)])

(***************************************************************************)
(* The files of the model.  A manifest is fixed for a behaviour; a SQL     *)
(* file can be rewritten between two runs.                                 *)
(***************************************************************************)
\* lines joined by "\n", each line terminated
RECURSIVE Text(_)
Text(lines) ==
    IF lines = <<>> THEN <<>> ELSE Head(lines) \o <<"\n">> \o Text(Tail(lines))

PathM == <<"m", ".", "l", "s", "t">>
PathN == <<"d", "/", "n", ".", "l", "s", "t">>
PathDup == <<"r", ".", "l", "s", "t">>
PathBad == <<"e", ".", "l", "s", "t">>
PathMissing == <<"z", ".", "l", "s", "t">>
PathA == <<"a", ".", "s", "q", "l">>
PathB == <<"d", "/", "b", ".", "s", "q", "l">>
PathU == <<"u", ".", "s", "q", "l">>

\* m.lst lists a.sql, the nested manifest d/n.lst and u.sql; r.lst lists
\* a.sql twice; e.lst refers to z.lst, a manifest that does not exist
ManifestFiles ==
    (PathM :> Text(<< <<"#", "c">>, PathA, <<>>, PathN,
                      <<"x", ".", "t", "x", "t">>, <<" ">> \o PathU >>))
    @@ (PathN :> Text(<< <<"b", ".", "s", "q", "l", " ">> >>))
    @@ (PathDup :> Text(<<PathA, PathA>>))
    @@ (PathBad :> Text(<<PathA, PathMissing>>))

SqlPaths == {PathA, PathB, PathU}

\* the files an operator rewrites in the model, and what they become
EditPaths == {PathA, PathB}

\* os.ReadFile fails on a path that holds NoFile
NoFile == <<"ENOENT">>

ContentV1 ==
    <<"-", "-", " ", "v", "e", "r", "s", "i", "o", "n", ":", " ", "1", "\n",
      "A", ";", "\n", "B", ";", "\n">>
ContentV1b ==
    <<"-", "-", " ", "v", "e", "r", "s", "i", "o", "n", ":", " ", "1", "\n",
      "A", ";", "\n", "C", ";", "\n">>
ContentV2 ==
    <<"-", "-", "v", "e", "r", "s", "i", "o", "n", ":", "2", "\n",
      "-", "-", "d", "e", "s", "c", "r", "i", "p", "t", "i", "o", "n", ":", "x", "'", "\n",
      "D", ";">>
ContentU == <<"U", ";", "-", "-", "u">>

Contents == {ContentV1, ContentV1b, ContentV2, ContentU}

EditContents == {ContentV1, ContentV1b, NoFile}
\* the rewrites of the model: a.sql changes its statements, goes and comes
\* back; d/b.sql takes the version of a.sql with other bytes, or goes
EditChoices == (EditPaths \X EditContents) \ {<<PathB, ContentV1>>}

InitialDisk == (PathA :> ContentV1) @@ (PathB :> ContentV2) @@ (PathU :> ContentU)

\* parseMigrationInfo that hides the read error from its caller
parseMigrationInfo_NoError(files, path) ==
    IF path \notin DOMAIN files \/ files[path] = NoFile
    THEN <<[Version |-> <<>>, Description |-> <<>>,
            Filename |-> Base(path), Checksum |-> <<>>], FALSE>>
    ELSE <<ParseContent(path, files[path]), FALSE>>

(***************************************************************************)
(* parseMigrationInfo on a path of the disk: <<info, err>>.                *)
(***************************************************************************)
parseMigrationInfo(files, path) ==
    IF path \notin DOMAIN files \/ files[path] = NoFile
    THEN <<[Version |-> <<>>, Description |-> <<>>,
            Filename |-> Base(path), Checksum |-> <<>>], TRUE>>
    ELSE <<ParseContent(path, files[path]), FALSE>>

(***************************************************************************)
(* processWithWriter (src/main.go:502-541): [err, sqlfiles, out].          *)
(***************************************************************************)
RECURSIVE processLines(_, _, _, _, _)
processWithWriter(path, files, out, debug) ==
    IF path \notin DOMAIN ManifestFiles
    THEN [err |-> TRUE, sqlfiles |-> files,
          out |-> Append(out, [msg |-> "ErrorOpeningFile", file |-> path])]
    ELSE processLines(ScanLines(ManifestFiles[path]), Dir(path), files,
                      Append(out, [msg |-> "ProcessingFile", file |-> path]), debug)

\* the scanner loop of lines 514-534 over the remaining lines
processLines(lines, dir, files, out, debug) ==
    IF lines = <<>> THEN [err |-> FALSE, sqlfiles |-> files, out |-> out]
    ELSE LET line == TrimSpace(Head(lines))
         IN IF line = <<>> \/ HasPrefix(line, <<"#">>)
            THEN processLines(Tail(lines), dir, files, out, debug)
            ELSE IF HasSuffix(line, <<".", "l", "s", "t">>)
            THEN LET sub == processWithWriter(Join(dir, line), files, out, debug)
                 IN IF sub.err THEN sub
                    ELSE processLines(Tail(lines), dir, sub.sqlfiles, sub.out, debug)
            ELSE IF HasSuffix(line, <<".", "s", "q", "l">>)
            THEN processLines(Tail(lines), dir, Append(files, Join(dir, line)),
                              IF debug
                              THEN Append(out, [msg |-> "AddingSQLFile", file |-> line])
                              ELSE out, debug)
            ELSE processLines(Tail(lines), dir, files,
                              Append(out, [msg |-> "WarningUnknownFileType",
                                           file |-> line]), debug)

(***************************************************************************)
(* The ledger: the rows of table schema_versions, an unordered multiset    *)
(* (src/sample/schema_versions.sql: a MergeTree table without a key        *)
(* constraint).                                                            *)
(***************************************************************************)
\* escapeSQLString (src/main.go:393-395)
RECURSIVE escapeSQLString(_)
escapeSQLString(s) ==
    IF s = <<>> THEN <<>>
    ELSE (IF Head(s) = "'" THEN <<"'", "'">> ELSE <<Head(s)>>)
         \o escapeSQLString(Tail(s))

\* the backend reading the body of a quoted literal: '' stands for '
RECURSIVE LiteralValue(_)
LiteralValue(s) ==
    IF s = <<>> THEN <<>>
    ELSE IF Head(s) = "'" /\ Len(s) >= 2 /\ s[2] = "'"
    THEN <<"'">> \o LiteralValue(Tail(Tail(s)))
    ELSE <<Head(s)>> \o LiteralValue(Tail(s))

\* the VALUES of the INSERT built by recordMigration (src/main.go:381-390)
recordMigration(migration) ==
    [version |-> escapeSQLString(migration.Version),
     description |-> escapeSQLString(migration.Description),
     filename |-> escapeSQLString(migration.Filename),
     checksum |-> escapeSQLString(migration.Checksum)]

\* the row the backend stores for an INSERT
InsertedRow(values) ==
    [version |-> LiteralValue(values.version),
     description |-> LiteralValue(values.description),
     filename |-> LiteralValue(values.filename),
     checksum |-> LiteralValue(values.checksum)]

\* a statement that replaces the rows of the version instead of adding one
InsertIntoSchemaVersions_Replace(table, values) ==
    LET row == InsertedRow(values)
        kept == {r \in BagToSet(table) : r.version # row.version}
    IN [r \in kept |-> table[r]] (+) SetToBag({row})

\* the effect on the table of the statement of lines 382-388:
\* INSERT INTO schema_versions (...) VALUES (...) adds one row
InsertIntoSchemaVersions(table, values) == table (+) SetToBag({InsertedRow(values)})

\* every order in which a query without ORDER BY can return the rows
RECURSIVE QueryOrders(_)
QueryOrders(rows) ==
    IF BagToSet(rows) = {} THEN {<<>>}
    ELSE UNION {{<<r>> \o rest : rest \in QueryOrders(rows (-) SetToBag({r}))}
                : r \in BagToSet(rows)}

\* a column value as the driver returns it: a string, or a value of
\* another type
String(s) == [type |-> "string", val |-> s]
NotAString == [type |-> "other", val |-> <<>>]

\* the type assertion v, _ := x.(string) of lines 333-334
AsString(v) == IF v.type = "string" THEN v.val ELSE <<>>

\* getAppliedMigrations that keeps the first row of a version
getAppliedMigrations_FirstWins(rows) ==
    LET versions == {AsString(rows[j].version) : j \in DOMAIN rows} \ {<<>>}
    IN [v \in versions |->
          AsString(rows[CHOOSE j \in DOMAIN rows :
                          /\ AsString(rows[j].version) = v
                          /\ \A i \in 1..(j - 1) : AsString(rows[i].version) # v].checksum)]

\* the loop of getAppliedMigrations (src/main.go:331-339) over the rows
RECURSIVE getAppliedMigrations(_)
getAppliedMigrations(rows) ==
    IF rows = <<>> THEN <<>>
    ELSE LET last == rows[Len(rows)]
             before == getAppliedMigrations(SubSeq(rows, 1, Len(rows) - 1))
             version == AsString(last.version)
             checksum == AsString(last.checksum)
         IN IF version # <<>>
            THEN (version :> checksum) @@ before
            ELSE before

(***************************************************************************)
(* The state: the disk and the ledger persist; the rest is the memory of   *)
(* one invocation of run() (src/main.go:156-282) and what it printed.      *)
(***************************************************************************)
VARIABLES
    disk,               \* SQL path -> content, or NoFile
    ledger,             \* bag of rows of schema_versions
    runs,               \* invocations started so far
    edits,              \* rewrites of SQL files so far
    faults,             \* failed backend calls so far
    pc,                 \* position of the process in run()
    cfg,                \* RunConfig of the invocation
    appliedMigrations,  \* version -> checksum, loaded at line 208
    sqlfiles,           \* the resolved list (line 218)
    pos,                \* index in sqlfiles of the loop at line 228
    info,               \* MigrationInfo of sqlfiles[pos]
    statements,         \* statements of the file being executed (line 553)
    k,                  \* index of the next statement (line 556)
    migrationsApplied,
    migrationsSkipped,
    status,             \* <<>> while run() executes, then <<its return value>>
    stdout,             \* messages written to cfg.Stdout
    stderr,             \* messages written to cfg.Stderr
    calls,              \* calls made on the DatabaseExecutor in this run
    previous            \* <<manifest>> of the run before this one if it has
                        \* returned 0 with every insert successful and no
                        \* SQL file was rewritten since, <<>> otherwise

\* a call of splitSQLStatements on its own (src/main.go:578-656)
VARIABLES
    input,              \* the argument sql
    scan,               \* the locals of the loop at line 585
    result              \* <<>> until the call returns, then <<its value>>

splitVars == <<input, scan, result>>

\* a call of processWithWriter on its own (src/main.go:502-541)
VARIABLES
    tree,               \* manifest path -> content
    frames,             \* the active calls, the innermost last
    listed,             \* *sqlfiles
    printed,            \* what was written to w
    outcome             \* <<>> until the outermost call returns, then
                        \* <<"nil">> or <<"err">>

resolveVars == <<tree, frames, listed, printed, outcome>>

\* two calls of parseMigrationInfo on their own (src/main.go:343-378), the
\* file rewritten or moved between them
VARIABLES
    given,              \* the file of the first call: path and content
    parsed,             \* <<>> until the first call returns, then <<info>>
    changed,            \* <<>>, then <<the file of the second call>>
    reparsed            \* <<>> until the second call returns, then <<info>>

parseVars == <<given, parsed, changed, reparsed>>

\* the loop of getAppliedMigrations on its own (src/main.go:331-339)
VARIABLES
    returned,           \* the rows the query returned
    mapping             \* <<>> until the call returns, then <<its result>>

loadVars == <<returned, mapping>>

vars ==
    <<disk, ledger, runs, edits, faults, pc, cfg, appliedMigrations, sqlfiles, pos,
      info, statements, k, migrationsApplied, migrationsSkipped, status, stdout, stderr,
      calls, previous, splitVars, resolveVars, parseVars, loadVars>>

Config(path, force, debug, showVersion) ==
    [Path |-> path, Force |-> force, Debug |-> debug, ShowVersion |-> showVersion]

\* the command lines of the model
RunConfigs ==
    {Config(PathM, FALSE, FALSE, FALSE), Config(PathM, TRUE, FALSE, FALSE),
     Config(PathM, FALSE, TRUE, FALSE)}
    \cup {Config(PathDup, FALSE, FALSE, FALSE)}
    \cup {Config(PathBad, FALSE, FALSE, FALSE), Config(PathM, TRUE, FALSE, TRUE)}
    \cup {Config(PathMissing, FALSE, FALSE, FALSE), Config(PathMissing, FALSE, FALSE, TRUE)}

NoInfo == [Version |-> <<>>, Description |-> <<>>, Filename |-> <<>>, Checksum |-> <<>>]

\* the memory of a process that has not started run()
FreshProcess ==
    /\ cfg = Config(PathM, FALSE, FALSE, FALSE)
    /\ appliedMigrations = <<>>
    /\ sqlfiles = <<>>
    /\ pos = 1
    /\ info = NoInfo
    /\ statements = <<>>
    /\ k = 1
    /\ migrationsApplied = 0
    /\ migrationsSkipped = 0
    /\ status = <<>>
    /\ stdout = <<>>
    /\ stderr = <<>>
    /\ calls = <<>>

Init ==
    /\ disk = InitialDisk
    /\ ledger = EmptyBag
    /\ runs = 0
    /\ edits = 0
    /\ faults = 0
    /\ pc = "idle"
    /\ previous = <<>>
    /\ FreshProcess
    /\ input = <<>>
    /\ scan = ScanInit
    /\ result = <<>>
    /\ tree = ManifestFiles
    /\ frames = <<>>
    /\ listed = <<>>
    /\ printed = <<>>
    /\ outcome = <<>>
    /\ given = [path |-> PathA, content |-> <<>>]
    /\ parsed = <<>>
    /\ changed = <<>>
    /\ reparsed = <<>>
    /\ returned = <<>>
    /\ mapping = <<>>

\* Decide that does not look at -force
Decide_ForceIgnored(force, inf, applied) ==
    IF inf.Version # <<>> /\ inf.Version \in DOMAIN applied
    THEN IF applied[inf.Version] = inf.Checksum THEN "skip" ELSE "reject"
    ELSE "apply"

\* Decide with the checksum comparison inverted
Decide_Swapped(force, inf, applied) ==
    IF ~force /\ inf.Version # <<>> /\ inf.Version \in DOMAIN applied
    THEN IF applied[inf.Version] # inf.Checksum THEN "skip" ELSE "reject"
    ELSE "apply"

\* Decide that re-applies a changed file instead of rejecting it
Decide_MismatchApplies(force, inf, applied) ==
    IF ~force /\ inf.Version # <<>> /\ inf.Version \in DOMAIN applied
          /\ applied[inf.Version] = inf.Checksum
    THEN "skip" ELSE "apply"

\* Decide that skips every known version without looking at the checksum
Decide_SkipKnownVersion(force, inf, applied) ==
    IF ~force /\ inf.Version # <<>> /\ inf.Version \in DOMAIN applied
    THEN "skip" ELSE "apply"

\* the decision of lines 235-252 for one file
Decide(force, inf, applied) ==
    IF ~force /\ inf.Version # <<>> /\ inf.Version \in DOMAIN applied
    THEN IF applied[inf.Version] = inf.Checksum THEN "skip" ELSE "reject"
    ELSE "apply"

\* SELECT version, checksum FROM schema_versions (line 326)
SelectVersionChecksum(rows) ==
    [j \in 1..Len(rows) |->
        [version |-> String(rows[j].version), checksum |-> String(rows[j].checksum)]]

\* run() returns: the message to stderr, if any, and the exit status
Return(code, errs) ==
    /\ status' = <<code>>
    /\ stderr' = stderr \o errs
    /\ pc' = "done"

(***************************************************************************)
(* The environment between two invocations.                                *)
(***************************************************************************)
\* an operator rewrites (or removes) a SQL file
EditFile(path, content) ==
    /\ pc = "idle"
    /\ edits < MaxEdits
    /\ content # disk[path]
    /\ disk' = [disk EXCEPT ![path] = content]
    /\ edits' = edits + 1
    /\ previous' = <<>>
    /\ UNCHANGED <<splitVars, resolveVars, parseVars, loadVars, ledger, runs, faults, pc, cfg, appliedMigrations, sqlfiles, pos, info,
                   statements, k, migrationsApplied, migrationsSkipped, status,
                   stdout, stderr, calls>>

\* main (line 284-288) enters run() with a command line
StartRun(c) ==
    /\ pc = "idle"
    /\ runs < MaxRuns
    /\ runs' = runs + 1
    /\ cfg' = c
    /\ pc' = "connect"
    /\ UNCHANGED <<splitVars, resolveVars, parseVars, loadVars, previous, disk, ledger, edits, faults, appliedMigrations, sqlfiles, pos, info,
                   statements, k, migrationsApplied, migrationsSkipped, status,
                   stdout, stderr, calls>>

\* os.Exit(run(cfg)): the process and its memory are gone
Exit ==
    /\ pc = "done"
    /\ pc' = "idle"
    /\ cfg' = Config(PathM, FALSE, FALSE, FALSE)
    /\ appliedMigrations' = <<>>
    /\ sqlfiles' = <<>>
    /\ pos' = 1
    /\ info' = NoInfo
    /\ statements' = <<>>
    /\ k' = 1
    /\ migrationsApplied' = 0
    /\ migrationsSkipped' = 0
    /\ status' = <<>>
    /\ stdout' = <<>>
    /\ stderr' = <<>>
    /\ calls' = <<>>
    /\ previous' = IF /\ status = <<0>> /\ ~cfg.ShowVersion
                      /\ \A c \in DOMAIN calls :
                            calls[c].op = "Insert" => calls[c].ok
                   THEN <<cfg.Path>> ELSE <<>>
    /\ UNCHANGED <<splitVars, resolveVars, parseVars, loadVars, disk, ledger, runs, edits, faults>>

(***************************************************************************)
(* run(), one action per call on the backend or per loop decision.         *)
(***************************************************************************)
\* a call on the DatabaseExecutor returns nil (ok) or an error
BackendCall(ok) ==
    /\ ok \/ faults < MaxFaults
    /\ faults' = IF ok THEN faults ELSE faults + 1

\* Connect that goes on after a failed connection
Connect_IgnoreError(ok) ==
    /\ pc = "connect"
    /\ BackendCall(ok)
    /\ calls' = Append(calls, [op |-> "Connect", ok |-> ok])
    /\ pc' = IF cfg.ShowVersion THEN "version" ELSE "query"
    /\ stderr' = IF ok THEN stderr ELSE Append(stderr, [msg |-> "ErrorConnecting"])
    /\ UNCHANGED <<splitVars, resolveVars, parseVars, loadVars, previous, disk, ledger, runs, edits, cfg, appliedMigrations, sqlfiles,
                   pos, info, statements, k, migrationsApplied, migrationsSkipped,
                   status, stdout>>

\* executor.Connect (lines 195-205)
Connect(ok) ==
    /\ pc = "connect"
    /\ BackendCall(ok)
    /\ calls' = Append(calls, [op |-> "Connect", ok |-> ok])
    /\ IF ok
       THEN /\ pc' = IF cfg.ShowVersion THEN "version" ELSE "query"
            /\ UNCHANGED <<status, stderr>>
       ELSE Return(1, <<[msg |-> "ErrorConnecting"]>>)
    /\ UNCHANGED <<splitVars, resolveVars, parseVars, loadVars, previous, disk, ledger, runs, edits, cfg, appliedMigrations, sqlfiles, pos,
                   info, statements, k, migrationsApplied, migrationsSkipped, stdout>>

\* -version that prints the history and goes on with the migration
ShowVersion_Continue(ok) ==
    /\ pc = "version"
    /\ BackendCall(ok)
    /\ calls' = Append(calls, [op |-> "Query", table |-> "history", ok |-> ok])
    /\ stdout' = Append(stdout,
                        [msg |-> IF ~ok THEN "CouldNotQuerySchemaVersion"
                                 ELSE IF ledger = EmptyBag THEN "NoMigrationsApplied"
                                 ELSE "SchemaVersionHistory"])
    /\ pc' = "query"
    /\ UNCHANGED <<splitVars, resolveVars, parseVars, loadVars, previous, disk, ledger, runs, edits, cfg, appliedMigrations, sqlfiles, pos,
                   info, statements, k, migrationsApplied, migrationsSkipped, status, stderr>>

\* showSchemaVersionWithWriter and return 0 (lines 202-205, 291-322)
ShowVersion(ok) ==
    /\ pc = "version"
    /\ BackendCall(ok)
    /\ calls' = Append(calls, [op |-> "Query", table |-> "history", ok |-> ok])
    /\ stdout' = Append(stdout,
                        [msg |-> IF ~ok THEN "CouldNotQuerySchemaVersion"
                                 ELSE IF ledger = EmptyBag THEN "NoMigrationsApplied"
                                 ELSE "SchemaVersionHistory"])
    /\ Return(0, <<>>)
    /\ UNCHANGED <<splitVars, resolveVars, parseVars, loadVars, previous, disk, ledger, runs, edits, cfg, appliedMigrations, sqlfiles, pos,
                   info, statements, k, migrationsApplied, migrationsSkipped>>

\* LoadApplied that treats a failed query as fatal
LoadApplied_Fatal(ok, rows) ==
    /\ pc = "query"
    /\ BackendCall(ok)
    /\ calls' = Append(calls, [op |-> "Query", table |-> "applied", ok |-> ok])
    /\ IF ok
       THEN /\ appliedMigrations' = getAppliedMigrations(SelectVersionChecksum(rows))
            /\ pc' = "resolve"
            /\ UNCHANGED <<status, stderr>>
       ELSE /\ Return(1, <<[msg |-> "ErrorQuerying"]>>)
            /\ UNCHANGED appliedMigrations
    /\ UNCHANGED <<splitVars, resolveVars, parseVars, loadVars, previous, disk, ledger, runs, edits, cfg, sqlfiles, pos, info,
                   statements, k, migrationsApplied, migrationsSkipped, stdout>>

\* getAppliedMigrations and its fallback (lines 207-215)
LoadApplied(ok, rows) ==
    /\ pc = "query"
    /\ BackendCall(ok)
    /\ calls' = Append(calls, [op |-> "Query", table |-> "applied", ok |-> ok])
    /\ IF ok
       THEN /\ appliedMigrations' = getAppliedMigrations(SelectVersionChecksum(rows))
            /\ UNCHANGED stdout
       ELSE /\ appliedMigrations' = <<>>
            /\ stdout' = IF cfg.Debug
                         THEN Append(stdout, [msg |-> "NoteCouldNotQuery"])
                         ELSE stdout
    /\ pc' = "resolve"
    /\ UNCHANGED <<splitVars, resolveVars, parseVars, loadVars, previous, disk, ledger, runs, edits, cfg, sqlfiles, pos, info, statements, k,
                   migrationsApplied, migrationsSkipped, status, stderr>>

\* Resolve that executes the files found before the manifest error
Resolve_IgnoreError ==
    /\ pc = "resolve"
    /\ LET r == processWithWriter(cfg.Path, <<>>, stdout, cfg.Debug)
       IN /\ sqlfiles' = r.sqlfiles
          /\ stdout' = r.out
          /\ pc' = "file"
    /\ UNCHANGED <<splitVars, resolveVars, parseVars, loadVars, previous, disk, ledger, runs, edits, faults, cfg, appliedMigrations,
                   pos, info, statements, k, migrationsApplied, migrationsSkipped,
                   calls, status, stderr>>

\* processWithWriter on cfg.Path (lines 217-223)
Resolve ==
    /\ pc = "resolve"
    /\ LET r == processWithWriter(cfg.Path, <<>>, stdout, cfg.Debug)
       IN /\ sqlfiles' = r.sqlfiles
          /\ stdout' = r.out
          /\ IF r.err
             THEN Return(1, <<[msg |-> "ErrorProcessingIndex"]>>)
             ELSE /\ pc' = "file"
                  /\ UNCHANGED <<status, stderr>>
    /\ UNCHANGED <<splitVars, resolveVars, parseVars, loadVars, previous, disk, ledger, runs, edits, faults, cfg, appliedMigrations, pos, info,
                   statements, k, migrationsApplied, migrationsSkipped, calls>>

\* the file of the current loop iteration and its parsed header (line 229)
CurFile == sqlfiles[pos]
CurParsed == parseMigrationInfo(disk, CurFile)
CurInfo == CurParsed[1]
CurDecision == Decide(cfg.Force, CurInfo, appliedMigrations)

\* the warning of lines 230-232
ParseWarning ==
    IF CurParsed[2] THEN <<[msg |-> "WarningCouldNotParse", file |-> CurFile]>>
    ELSE <<>>

InLoop == pc = "file" /\ pos <= Len(sqlfiles)

\* SkipFile that does not count the file
SkipFile_NotCounted ==
    /\ InLoop
    /\ CurDecision = "skip"
    /\ info' = CurInfo
    /\ stdout' = stdout \o ParseWarning \o
                 (IF cfg.Debug THEN <<[msg |-> "Skipping", file |-> Base(CurFile),
                                       version |-> CurInfo.Version]>>
                  ELSE <<>>)
    /\ pos' = pos + 1
    /\ UNCHANGED <<splitVars, resolveVars, parseVars, loadVars, previous, disk, ledger, runs, edits, faults, pc, cfg, appliedMigrations,
                   sqlfiles, statements, k, migrationsApplied, migrationsSkipped,
                   status, stderr, calls>>

\* lines 237-242: same version, same checksum
SkipFile ==
    /\ InLoop
    /\ CurDecision = "skip"
    /\ info' = CurInfo
    /\ stdout' = stdout \o ParseWarning \o
                 (IF cfg.Debug THEN <<[msg |-> "Skipping", file |-> Base(CurFile),
                                       version |-> CurInfo.Version]>>
                  ELSE <<>>)
    /\ migrationsSkipped' = migrationsSkipped + 1
    /\ pos' = pos + 1
    /\ UNCHANGED <<splitVars, resolveVars, parseVars, loadVars, previous, disk, ledger, runs, edits, faults, pc, cfg, appliedMigrations, sqlfiles,
                   statements, k, migrationsApplied, status, stderr, calls>>

\* lines 243-250: same version, other checksum
RejectFile ==
    /\ InLoop
    /\ CurDecision = "reject"
    /\ info' = CurInfo
    /\ stdout' = stdout \o ParseWarning
    /\ Return(1, <<[msg |-> "ChecksumMismatch", version |-> CurInfo.Version,
                    file |-> CurFile,
                    expected |-> appliedMigrations[CurInfo.Version],
                    current |-> CurInfo.Checksum]>>)
    /\ UNCHANGED <<splitVars, resolveVars, parseVars, loadVars, previous, disk, ledger, runs, edits, faults, cfg, appliedMigrations, sqlfiles, pos,
                   statements, k, migrationsApplied, migrationsSkipped, calls>>

\* Executed without the test of line 261: every executed file is recorded
Executed_AlwaysRecord(inf, out, file, count) ==
    /\ stdout' = Append(out, [msg |-> "SuccessfullyExecuted", file |-> file,
                              statements |-> count])
    /\ pc' = "record"
    /\ UNCHANGED <<migrationsApplied, pos>>

\* Executed that counts the file and goes on without recordMigration
Executed_NoRecord(inf, out, file, count) ==
    /\ stdout' = Append(out, [msg |-> "SuccessfullyExecuted", file |-> file,
                              statements |-> count])
    /\ pc' = "file"
    /\ migrationsApplied' = migrationsApplied + 1
    /\ pos' = pos + 1

\* executeSQLWithWriter has returned nil (line 572, then lines 260-267):
\* a versioned file goes on to recordMigration, another one is counted
Executed(inf, out, file, count) ==
    /\ stdout' = Append(out, [msg |-> "SuccessfullyExecuted", file |-> file,
                              statements |-> count])
    /\ IF inf.Version # <<>>
       THEN /\ pc' = "record"
            /\ UNCHANGED <<migrationsApplied, pos>>
       ELSE /\ pc' = "file"
            /\ migrationsApplied' = migrationsApplied + 1
            /\ pos' = pos + 1

\* the message naming the loop variable i instead of i+1
StatementFailed_ZeroBased(file, i) ==
    [msg |-> "ErrorExecuting", file |-> file, cause |-> "StatementFailed",
     statement |-> i]

\* line 568 wrapped by line 256: the loop variable i counts from 0, the
\* message names statement i+1
StatementFailed(file, i) ==
    [msg |-> "ErrorExecuting", file |-> file, cause |-> "StatementFailed",
     statement |-> i + 1]

\* ApplyFile that, after the first invocation, goes on at the second statement
ApplyFile_Resume ==
    /\ InLoop
    /\ CurDecision = "apply"
    /\ info' = CurInfo
    /\ k' = IF runs >= 2 /\ Len(splitSQLStatements(disk[CurFile])) >= 2 THEN 2 ELSE 1
    /\ LET out == stdout \o ParseWarning
                  \o <<[msg |-> "ExecutingSQLFile", file |-> CurFile]>>
       IN IF disk[CurFile] = NoFile
          THEN /\ stdout' = out
               /\ Return(1, <<[msg |-> "ErrorExecuting", file |-> CurFile,
                               cause |-> "FailedToReadSQLFile"]>>)
               /\ UNCHANGED <<statements, migrationsApplied, pos>>
          ELSE LET stmts == splitSQLStatements(disk[CurFile])
               IN /\ statements' = stmts
                  /\ IF stmts = <<>>
                     THEN Executed(CurInfo, out, CurFile, 0)
                     ELSE /\ pc' = "exec"
                          /\ stdout' = out
                          /\ UNCHANGED <<migrationsApplied, pos>>
                  /\ UNCHANGED <<status, stderr>>
    /\ UNCHANGED <<splitVars, resolveVars, parseVars, loadVars, previous, disk, ledger, runs, edits, faults, cfg, appliedMigrations, sqlfiles,
                   migrationsSkipped, calls>>

\* ApplyFile that passes over a file it cannot read
ApplyFile_SkipUnreadable ==
    /\ InLoop
    /\ CurDecision = "apply"
    /\ info' = CurInfo
    /\ k' = 1
    /\ LET out == stdout \o ParseWarning
                  \o <<[msg |-> "ExecutingSQLFile", file |-> CurFile]>>
       IN IF disk[CurFile] = NoFile
          THEN /\ stdout' = out
               /\ pos' = pos + 1
               /\ UNCHANGED <<statements, migrationsApplied, pc, status, stderr>>
          ELSE LET stmts == splitSQLStatements(disk[CurFile])
               IN /\ statements' = stmts
                  /\ IF stmts = <<>>
                     THEN Executed(CurInfo, out, CurFile, 0)
                     ELSE /\ pc' = "exec"
                          /\ stdout' = out
                          /\ UNCHANGED <<migrationsApplied, pos>>
                  /\ UNCHANGED <<status, stderr>>
    /\ UNCHANGED <<splitVars, resolveVars, parseVars, loadVars, previous, disk, ledger, runs, edits, faults, cfg, appliedMigrations, sqlfiles,
                   migrationsSkipped, calls>>

\* line 254 and the head of executeSQLWithWriter (lines 545-553)
ApplyFile ==
    /\ InLoop
    /\ CurDecision = "apply"
    /\ info' = CurInfo
    /\ k' = 1
    /\ LET out == stdout \o ParseWarning
                  \o <<[msg |-> "ExecutingSQLFile", file |-> CurFile]>>
       IN IF disk[CurFile] = NoFile
          THEN /\ stdout' = out
               /\ Return(1, <<[msg |-> "ErrorExecuting", file |-> CurFile,
                               cause |-> "FailedToReadSQLFile"]>>)
               /\ UNCHANGED <<statements, migrationsApplied, pos>>
          ELSE LET stmts == splitSQLStatements(disk[CurFile])
               IN /\ statements' = stmts
                  /\ IF stmts = <<>>
                     THEN Executed(CurInfo, out, CurFile, 0)
                     ELSE /\ pc' = "exec"
                          /\ stdout' = out
                          /\ UNCHANGED <<migrationsApplied, pos>>
                  /\ UNCHANGED <<status, stderr>>
    /\ UNCHANGED <<splitVars, resolveVars, parseVars, loadVars, previous, disk, ledger, runs, edits, faults, cfg, appliedMigrations, sqlfiles,
                   migrationsSkipped, calls>>

\* ExecStatement that takes back the rows of the run when a statement fails
ExecStatement_Rollback(ok) ==
    /\ pc = "exec"
    /\ BackendCall(ok)
    /\ calls' = Append(calls, [op |-> "Execute", at |-> pos, file |-> CurFile,
                               index |-> k, sql |-> TrimSpace(statements[k]),
                               ok |-> ok])
    /\ LET out == IF cfg.Debug
                  THEN Append(stdout, [msg |-> "ExecutingStatement", index |-> k,
                                       of |-> Len(statements)])
                  ELSE stdout
       IN IF ~ok
          THEN /\ stdout' = out
               /\ Return(1, <<StatementFailed(CurFile, k - 1)>>)
               /\ UNCHANGED <<k, migrationsApplied, pos>>
               /\ ledger' = [r \in {x \in BagToSet(ledger) :
                                      \A c \in DOMAIN calls :
                                         (calls[c].op = "Insert" /\ calls[c].ok)
                                            => InsertedRow(calls[c].values) # x}
                               |-> ledger[r]]
          ELSE /\ k' = k + 1
               /\ IF k = Len(statements)
                  THEN Executed(info, out, CurFile, Len(statements))
                  ELSE /\ stdout' = out
                       /\ UNCHANGED <<pc, migrationsApplied, pos>>
               /\ UNCHANGED <<status, stderr, ledger>>
    /\ UNCHANGED <<splitVars, resolveVars, parseVars, loadVars, previous, disk, runs, edits, cfg, appliedMigrations, sqlfiles, info,
                   statements, migrationsSkipped>>

\* one iteration of the loop at lines 556-570
ExecStatement(ok) ==
    /\ pc = "exec"
    /\ BackendCall(ok)
    /\ calls' = Append(calls, [op |-> "Execute", at |-> pos, file |-> CurFile,
                               index |-> k, sql |-> TrimSpace(statements[k]),
                               ok |-> ok])
    /\ LET out == IF cfg.Debug
                  THEN Append(stdout, [msg |-> "ExecutingStatement", index |-> k,
                                       of |-> Len(statements)])
                  ELSE stdout
       IN IF ~ok
          THEN /\ stdout' = out
               /\ Return(1, <<StatementFailed(CurFile, k - 1)>>)
               /\ UNCHANGED <<k, migrationsApplied, pos>>
          ELSE /\ k' = k + 1
               /\ IF k = Len(statements)
                  THEN Executed(info, out, CurFile, Len(statements))
                  ELSE /\ stdout' = out
                       /\ UNCHANGED <<pc, migrationsApplied, pos>>
               /\ UNCHANGED <<status, stderr>>
    /\ UNCHANGED <<splitVars, resolveVars, parseVars, loadVars, previous, disk, ledger, runs, edits, cfg, appliedMigrations, sqlfiles, info,
                   statements, migrationsSkipped>>

\* Record that ends the run when the insert fails
Record_Fatal(ok) ==
    /\ pc = "record"
    /\ BackendCall(ok)
    /\ LET values == recordMigration(info)
       IN /\ calls' = Append(calls, [op |-> "Insert", at |-> pos, file |-> CurFile,
                                     values |-> values, ok |-> ok])
          /\ IF ok
             THEN /\ ledger' = InsertIntoSchemaVersions(ledger, values)
                  /\ migrationsApplied' = migrationsApplied + 1
                  /\ pos' = pos + 1
                  /\ pc' = "file"
                  /\ UNCHANGED <<status, stderr>>
             ELSE /\ Return(1, <<[msg |-> "ErrorRecording", file |-> CurFile]>>)
                  /\ UNCHANGED <<ledger, migrationsApplied, pos>>
    /\ UNCHANGED <<splitVars, resolveVars, parseVars, loadVars, previous, disk, runs, edits, cfg, appliedMigrations, sqlfiles, info,
                   statements, k, migrationsSkipped, stdout>>

\* Record that also enters the new row into the loaded state
Record_Remembers(ok) ==
    /\ pc = "record"
    /\ BackendCall(ok)
    /\ LET values == recordMigration(info)
       IN /\ calls' = Append(calls, [op |-> "Insert", at |-> pos, file |-> CurFile,
                                     values |-> values, ok |-> ok])
          /\ IF ok
             THEN /\ ledger' = InsertIntoSchemaVersions(ledger, values)
                  /\ appliedMigrations' = (info.Version :> info.Checksum) @@ appliedMigrations
                  /\ UNCHANGED stdout
             ELSE /\ stdout' = Append(stdout, [msg |-> "WarningCouldNotRecord",
                                               version |-> info.Version])
                  /\ UNCHANGED <<ledger, appliedMigrations>>
    /\ migrationsApplied' = migrationsApplied + 1
    /\ pos' = pos + 1
    /\ pc' = "file"
    /\ UNCHANGED <<splitVars, resolveVars, parseVars, loadVars, previous, disk, runs, edits, cfg, sqlfiles, info,
                   statements, k, migrationsSkipped, status, stderr>>

\* lines 261-267: recordMigration, a failure is a warning
Record(ok) ==
    /\ pc = "record"
    /\ BackendCall(ok)
    /\ LET values == recordMigration(info)
       IN /\ calls' = Append(calls, [op |-> "Insert", at |-> pos, file |-> CurFile,
                                     values |-> values, ok |-> ok])
          /\ IF ok
             THEN /\ ledger' = InsertIntoSchemaVersions(ledger, values)
                  /\ UNCHANGED stdout
             ELSE /\ stdout' = Append(stdout, [msg |-> "WarningCouldNotRecord",
                                               version |-> info.Version])
                  /\ UNCHANGED ledger
    /\ migrationsApplied' = migrationsApplied + 1
    /\ pos' = pos + 1
    /\ pc' = "file"
    /\ UNCHANGED <<splitVars, resolveVars, parseVars, loadVars, previous, disk, runs, edits, cfg, appliedMigrations, sqlfiles, info,
                   statements, k, migrationsSkipped, status, stderr>>

\* lines 270-281 with no -data path: the summary and return 0
Complete ==
    /\ pc = "file"
    /\ pos > Len(sqlfiles)
    /\ stdout' = Append(stdout, [msg |-> "MigrationComplete",
                                 applied |-> migrationsApplied,
                                 skipped |-> migrationsSkipped])
    /\ Return(0, <<>>)
    /\ UNCHANGED <<splitVars, resolveVars, parseVars, loadVars, previous, disk, ledger, runs, edits, faults, cfg, appliedMigrations, sqlfiles, pos,
                   info, statements, k, migrationsApplied, migrationsSkipped, calls>>

Next ==
    \/ \E e \in EditChoices : EditFile(e[1], e[2])
    \/ \E c \in RunConfigs : StartRun(c)
    \/ Exit
    \/ \E ok \in BOOLEAN : Connect(ok)
    \/ \E ok \in BOOLEAN : ShowVersion(ok)
    \/ \E rows \in QueryOrders(ledger) : LoadApplied(TRUE, rows)
    \/ LoadApplied(FALSE, <<>>)
    \/ Resolve
    \/ SkipFile
    \/ RejectFile
    \/ ApplyFile
    \/ \E ok \in BOOLEAN : ExecStatement(ok)
    \/ \E ok \in BOOLEAN : Record(ok)
    \/ Complete

Spec == Init /\ [][Next]_vars

(***************************************************************************)
(* splitSQLStatements called on its own, on every text up to MaxLen runes  *)
(* over the characters the scanner tells apart, one loop iteration a step. *)
(***************************************************************************)
Alphabet == {";", "'", "\"", "-", "/", "*", "\n", "\r", "\\", "a"}

Texts == UNION {[1..n -> Alphabet] : n \in 0..MaxLen}

SplitInit ==
    /\ disk = InitialDisk
    /\ ledger = EmptyBag
    /\ runs = 0
    /\ edits = 0
    /\ faults = 0
    /\ pc = "idle"
    /\ previous = <<>>
    /\ FreshProcess
    /\ input \in Texts
    /\ scan = ScanInit
    /\ result = <<>>
    /\ tree = ManifestFiles
    /\ frames = <<>>
    /\ listed = <<>>
    /\ printed = <<>>
    /\ outcome = <<>>
    /\ given = [path |-> PathA, content |-> <<>>]
    /\ parsed = <<>>
    /\ changed = <<>>
    /\ reparsed = <<>>
    /\ returned = <<>>
    /\ mapping = <<>>

\* one iteration of the loop at line 585
ScanRune ==
    /\ result = <<>>
    /\ scan.i <= Len(input)
    /\ scan' = ScanStep(input, scan)
    /\ UNCHANGED <<disk, ledger, runs, edits, faults, pc, cfg, appliedMigrations, sqlfiles,
                   pos, info, statements, k, migrationsApplied, migrationsSkipped,
                   status, stdout, stderr, calls, previous, input, result,
                   resolveVars, parseVars, loadVars>>

\* ScanReturn that drops what follows the last semicolon
ScanReturn_DropTail ==
    /\ result = <<>>
    /\ scan.i > Len(input)
    /\ result' = <<scan.statements>>
    /\ UNCHANGED <<disk, ledger, runs, edits, faults, pc, cfg, appliedMigrations, sqlfiles,
                   pos, info, statements, k, migrationsApplied, migrationsSkipped,
                   status, stdout, stderr, calls, previous, input, scan,
                   resolveVars, parseVars, loadVars>>

\* lines 649-655: the last statement and the return
ScanReturn ==
    /\ result = <<>>
    /\ scan.i > Len(input)
    /\ result' = <<EmitStatement(scan.statements, scan.current)>>
    /\ UNCHANGED <<disk, ledger, runs, edits, faults, pc, cfg, appliedMigrations, sqlfiles,
                   pos, info, statements, k, migrationsApplied, migrationsSkipped,
                   status, stdout, stderr, calls, previous, input, scan,
                   resolveVars, parseVars, loadVars>>

SplitNext == ScanRune \/ ScanReturn

SplitSpec == SplitInit /\ [][SplitNext]_vars

(***************************************************************************)
(* processWithWriter called on its own, on every tree of three manifests   *)
(* with up to MaxLines lines in m.lst and p.lst, one call, line or return  *)
(* a step.                                                                 *)
(***************************************************************************)
PathP == <<"p", ".", "l", "s", "t">>

\* the lines a manifest of the tree can have: m.lst and p.lst lie in the
\* working directory, n.lst in d/; z.lst does not exist
RootLines == {PathA, PathP, PathM}
PeerLines == {PathN, PathM}
NestedChoices ==
    {<<>>, << <<"b", ".", "s", "q", "l">> >>, <<PathMissing>>,
     << <<"#", "c">>, <<"x", ".", "t", "x", "t">>, <<" ", "b", ".", "s", "q", "l", " ">> >>,
     << <<"c", ".", "s", "q", "l">>, <<" ">>, <<"x", ".", "t", "x", "t">>,
        <<"b", ".", "s", "q", "l">> >>}

LineSeqs(choices) == UNION {[1..n -> choices] : n \in 0..MaxLines}

Trees ==
    {(PathM :> Text(m)) @@ (PathP :> Text(q)) @@ (PathN :> Text(n)) :
        m \in LineSeqs(RootLines), q \in LineSeqs(PeerLines), n \in NestedChoices}

\* a call of processWithWriter(path, ...) that has not opened its file yet
NewFrame(path) == [path |-> path, opened |-> FALSE, dir |-> <<>>, lines |-> <<>>]

\* the recursive call of line 523 that is not made for a manifest whose
\* call is active
PushFrame_SkipActive(stack, path) ==
    IF \E n \in DOMAIN stack : stack[n].path = path THEN stack
    ELSE Append(stack, NewFrame(path))

\* the recursive call of line 523
PushFrame(stack, path) == Append(stack, NewFrame(path))

\* the path taken from the working directory
ResolvePath_WorkingDir(dir, name) == name

\* filepath.Join(dir, fileName) of lines 523 and 531
ResolvePath(dir, name) == Join(dir, name)

ResolveInit ==
    /\ disk = InitialDisk
    /\ ledger = EmptyBag
    /\ runs = 0
    /\ edits = 0
    /\ faults = 0
    /\ pc = "idle"
    /\ previous = <<>>
    /\ FreshProcess
    /\ input = <<>>
    /\ scan = ScanInit
    /\ result = <<>>
    /\ tree \in Trees
    /\ frames = <<NewFrame(cfg.Path)>>
    /\ listed = <<>>
    /\ printed = <<>>
    /\ outcome = <<>>
    /\ given = [path |-> PathA, content |-> <<>>]
    /\ parsed = <<>>
    /\ changed = <<>>
    /\ reparsed = <<>>
    /\ returned = <<>>
    /\ mapping = <<>>

Top == frames[Len(frames)]

\* os.Open and the first print (lines 503-511); the error is returned by
\* every active call in turn (lines 524-526)
OpenManifest ==
    /\ outcome = <<>> /\ frames # <<>> /\ ~Top.opened
    /\ IF Top.path \in DOMAIN tree
       THEN /\ frames' = [frames EXCEPT ![Len(frames)] =
                             [path |-> Top.path, opened |-> TRUE,
                              dir |-> Dir(Top.path),
                              lines |-> ScanLines(tree[Top.path])]]
            /\ printed' = Append(printed, [msg |-> "ProcessingFile",
                                           file |-> Top.path])
            /\ UNCHANGED outcome
       ELSE /\ frames' = <<>>
            /\ printed' = Append(printed, [msg |-> "ErrorOpeningFile",
                                           file |-> Top.path])
            /\ outcome' = <<"err">>
    /\ UNCHANGED <<disk, ledger, runs, edits, faults, pc, cfg, appliedMigrations, sqlfiles,
                   pos, info, statements, k, migrationsApplied, migrationsSkipped,
                   status, stdout, stderr, calls, previous, splitVars, parseVars, loadVars, tree, listed>>

\* ReadLine that returns an error for an entry of unknown type
ReadLine_UnknownFatal ==
    /\ outcome = <<>> /\ frames # <<>> /\ Top.opened /\ Top.lines # <<>>
    /\ LET line == TrimSpace(Head(Top.lines))
           rest == [frames EXCEPT ![Len(frames)].lines = Tail(Top.lines)]
       IN IF line = <<>> \/ HasPrefix(line, <<"#">>)
          THEN /\ frames' = rest
               /\ UNCHANGED <<listed, printed, outcome>>
          ELSE IF HasSuffix(line, <<".", "l", "s", "t">>)
          THEN /\ Len(frames) < MaxDepth
               /\ frames' = PushFrame(rest, ResolvePath(Top.dir, line))
               /\ UNCHANGED <<listed, printed, outcome>>
          ELSE IF HasSuffix(line, <<".", "s", "q", "l">>)
          THEN /\ frames' = rest
               /\ listed' = Append(listed, ResolvePath(Top.dir, line))
               /\ printed' = IF cfg.Debug
                             THEN Append(printed, [msg |-> "AddingSQLFile",
                                                   file |-> line])
                             ELSE printed
               /\ UNCHANGED outcome
          ELSE /\ frames' = <<>>
               /\ printed' = Append(printed, [msg |-> "WarningUnknownFileType",
                                              file |-> line])
               /\ outcome' = <<"err">>
               /\ UNCHANGED listed
    /\ UNCHANGED <<disk, ledger, runs, edits, faults, pc, cfg, appliedMigrations, sqlfiles,
                   pos, info, statements, k, migrationsApplied, migrationsSkipped,
                   status, stdout, stderr, calls, previous, splitVars, parseVars, loadVars, tree>>

\* one iteration of the scanner loop (lines 514-534)
ReadLine ==
    /\ outcome = <<>> /\ frames # <<>> /\ Top.opened /\ Top.lines # <<>>
    /\ LET line == TrimSpace(Head(Top.lines))
           rest == [frames EXCEPT ![Len(frames)].lines = Tail(Top.lines)]
       IN IF line = <<>> \/ HasPrefix(line, <<"#">>)
          THEN /\ frames' = rest
               /\ UNCHANGED <<listed, printed>>
          ELSE IF HasSuffix(line, <<".", "l", "s", "t">>)
          THEN /\ Len(frames) < MaxDepth
               /\ frames' = PushFrame(rest, ResolvePath(Top.dir, line))
               /\ UNCHANGED <<listed, printed>>
          ELSE IF HasSuffix(line, <<".", "s", "q", "l">>)
          THEN /\ frames' = rest
               /\ listed' = Append(listed, ResolvePath(Top.dir, line))
               /\ printed' = IF cfg.Debug
                             THEN Append(printed, [msg |-> "AddingSQLFile",
                                                   file |-> line])
                             ELSE printed
          ELSE /\ frames' = rest
               /\ printed' = Append(printed, [msg |-> "WarningUnknownFileType",
                                              file |-> line])
               /\ UNCHANGED listed
    /\ UNCHANGED <<disk, ledger, runs, edits, faults, pc, cfg, appliedMigrations, sqlfiles,
                   pos, info, statements, k, migrationsApplied, migrationsSkipped,
                   status, stdout, stderr, calls, previous, splitVars, parseVars, loadVars, tree, outcome>>

\* the scanner is exhausted: return nil (lines 536-540)
ReturnNil ==
    /\ outcome = <<>> /\ frames # <<>> /\ Top.opened /\ Top.lines = <<>>
    /\ frames' = SubSeq(frames, 1, Len(frames) - 1)
    /\ outcome' = IF Len(frames) = 1 THEN <<"nil">> ELSE <<>>
    /\ UNCHANGED <<disk, ledger, runs, edits, faults, pc, cfg, appliedMigrations, sqlfiles,
                   pos, info, statements, k, migrationsApplied, migrationsSkipped,
                   status, stdout, stderr, calls, previous, splitVars, parseVars, loadVars, tree, listed,
                   printed>>

ResolveNext == OpenManifest \/ ReadLine \/ ReturnNil

ResolveSpec == ResolveInit /\ [][ResolveNext]_vars

\* the scheduler runs the one process until it returns or exhausts its stack
ResolveFairSpec == ResolveSpec /\ WF_vars(ResolveNext)

(***************************************************************************)
(* parseMigrationInfo called on its own, on files of up to HeaderLines + 1 *)
(* other lines followed by up to MaxLines header lines, then called again  *)
(* after the file was left alone, moved or rewritten.                      *)
(***************************************************************************)
Filler == <<"x">>
LineV1 == <<"-", "-", " ", "v", "e", "r", "s", "i", "o", "n", ":", " ", "1">>
LineV2 == <<"-", "-", "v", "e", "r", "s", "i", "o", "n", ":", "2">>
LineD == <<"-", "-", " ", "d", "e", "s", "c", "r", "i", "p", "t", "i", "o", "n", ":", " ", "d">>
\* matches the version pattern with a group of one blank
LineVBlank == <<"-", "-", " ", "v", "e", "r", "s", "i", "o", "n", ":", " ">>

HeaderChoices == {LineV1, LineV2, LineD, LineVBlank}

Pad(n) == [j \in 1..n |-> Filler]

HeaderFiles ==
    {[path |-> PathA, content |-> Text(Pad(n) \o h)] :
        n \in 0..(HeaderLines + 1), h \in LineSeqs(HeaderChoices)}

\* the same file, the file under another path, the file with a line added
\* at its end, the file with a blank put before its first line
Rewrites(f) ==
    {f, [f EXCEPT !.path = PathB],
     [f EXCEPT !.content = @ \o Filler \o <<"\n">>],
     [f EXCEPT !.content = <<" ">> \o @]}

ParseInit ==
    /\ disk = InitialDisk
    /\ ledger = EmptyBag
    /\ runs = 0
    /\ edits = 0
    /\ faults = 0
    /\ pc = "idle"
    /\ previous = <<>>
    /\ FreshProcess
    /\ input = <<>>
    /\ scan = ScanInit
    /\ result = <<>>
    /\ tree = ManifestFiles
    /\ frames = <<>>
    /\ listed = <<>>
    /\ printed = <<>>
    /\ outcome = <<>>
    /\ given \in HeaderFiles
    /\ parsed = <<>>
    /\ changed = <<>>
    /\ reparsed = <<>>
    /\ returned = <<>>
    /\ mapping = <<>>

\* the first call (lines 343-378)
ParseFile ==
    /\ parsed = <<>>
    /\ parsed' = <<parseMigrationInfo((given.path :> given.content), given.path)[1]>>
    /\ UNCHANGED <<disk, ledger, runs, edits, faults, pc, cfg, appliedMigrations, sqlfiles,
                   pos, info, statements, k, migrationsApplied, migrationsSkipped,
                   status, stdout, stderr, calls, previous, splitVars, resolveVars, loadVars,
                   given, changed, reparsed>>

\* the operator leaves the file alone, moves it or rewrites it
RewriteFile ==
    /\ parsed # <<>> /\ changed = <<>>
    /\ \E f \in Rewrites(given) : changed' = <<f>>
    /\ UNCHANGED <<disk, ledger, runs, edits, faults, pc, cfg, appliedMigrations, sqlfiles,
                   pos, info, statements, k, migrationsApplied, migrationsSkipped,
                   status, stdout, stderr, calls, previous, splitVars, resolveVars, loadVars,
                   given, parsed, reparsed>>

\* the second call
ParseAgain ==
    /\ changed # <<>> /\ reparsed = <<>>
    /\ reparsed' =
          <<parseMigrationInfo((changed[1].path :> changed[1].content), changed[1].path)[1]>>
    /\ UNCHANGED <<disk, ledger, runs, edits, faults, pc, cfg, appliedMigrations, sqlfiles,
                   pos, info, statements, k, migrationsApplied, migrationsSkipped,
                   status, stdout, stderr, calls, previous, splitVars, resolveVars, loadVars,
                   given, parsed, changed>>

ParseNext == ParseFile \/ RewriteFile \/ ParseAgain

ParseSpec == ParseInit /\ [][ParseNext]_vars

(***************************************************************************)
(* getAppliedMigrations called on its own, on every result of up to        *)
(* MaxRows rows whose columns are strings, empty strings or other values.  *)
(***************************************************************************)
VersionValues == {String(<<"1">>), String(<<"2">>), String(<<>>), NotAString}
ChecksumValues == {String(<<"c">>), String(<<"d">>), NotAString}

QueryResults ==
    UNION {[1..n -> [version : VersionValues, checksum : ChecksumValues]] : n \in 0..MaxRows}

LoadInit ==
    /\ disk = InitialDisk
    /\ ledger = EmptyBag
    /\ runs = 0
    /\ edits = 0
    /\ faults = 0
    /\ pc = "idle"
    /\ previous = <<>>
    /\ FreshProcess
    /\ input = <<>>
    /\ scan = ScanInit
    /\ result = <<>>
    /\ tree = ManifestFiles
    /\ frames = <<>>
    /\ listed = <<>>
    /\ printed = <<>>
    /\ outcome = <<>>
    /\ given = [path |-> PathA, content |-> <<>>]
    /\ parsed = <<>>
    /\ changed = <<>>
    /\ reparsed = <<>>
    /\ returned \in QueryResults
    /\ mapping = <<>>

\* lines 331-339: the loop over the rows and the return
LoadRows ==
    /\ mapping = <<>>
    /\ mapping' = <<getAppliedMigrations(returned)>>
    /\ UNCHANGED <<disk, ledger, runs, edits, faults, pc, cfg, appliedMigrations, sqlfiles,
                   pos, info, statements, k, migrationsApplied, migrationsSkipped,
                   status, stdout, stderr, calls, previous, splitVars, resolveVars,
                   parseVars, returned>>

LoadNext == LoadRows

LoadSpec == LoadInit /\ [][LoadNext]_vars

(***************************************************************************)
(* Properties.  What a run did is read from its calls, its output and its  *)
(* counters; what it had to do is read from the disk and the loaded state, *)
(* which do not change while a run executes.                               *)
(***************************************************************************)
Last(s) == s[Len(s)]

\* the loop of lines 228-268 has been entered in this run
LoopReached ==
    \/ pc \in {"file", "exec", "record"}
    \/ /\ pc = "done"
       /\ \E c \in DOMAIN calls : calls[c].op = "Query" /\ calls[c].table = "applied"
       /\ ~(stderr # <<>> /\ Last(stderr).msg = "ErrorProcessingIndex")

Positions == 1..Len(sqlfiles)
\* parseMigrationInfo and splitSQLStatements on every file the disk can hold,
\* tabulated once (@@ makes the table an explicit function)
ParsedFiles ==
    [f \in SqlPaths \X (Contents \cup {NoFile}) |->
        parseMigrationInfo((f[1] :> f[2]), f[1])[1]] @@ <<>>
SplitFiles == [c \in Contents \cup {NoFile} |-> splitSQLStatements(c)] @@ <<>>

InfoAt(j) == ParsedFiles[<<sqlfiles[j], disk[sqlfiles[j]]>>]
Versioned(j) == InfoAt(j).Version # <<>>
Known(j) == InfoAt(j).Version \in DOMAIN appliedMigrations
Matching(j) ==
    /\ ~cfg.Force /\ Versioned(j) /\ Known(j)
    /\ appliedMigrations[InfoAt(j).Version] = InfoAt(j).Checksum
Mismatching(j) ==
    /\ ~cfg.Force /\ Versioned(j) /\ Known(j)
    /\ appliedMigrations[InfoAt(j).Version] # InfoAt(j).Checksum

\* the calls the run made for the file at position j of the list
FileCalls == {c \in DOMAIN calls : calls[c].op \in {"Execute", "Insert"}}
CallsAt(j) == {c \in FileCalls : calls[c].at = j}
ExecutionsAt(j) == {c \in CallsAt(j) : calls[c].op = "Execute"}
InsertsAt(j) == {c \in CallsAt(j) : calls[c].op = "Insert"}
StatementsAt(j) == SplitFiles[disk[sqlfiles[j]]]

\* C1: in a first, non-forced run over the unchanged files in which no call
\* fails, every statement of every versioned file of the manifest has been
\* executed exactly once when the run ends, also when the manifest lists a
\* file twice (the claim for a sequence of one run).
C1_ExecutedExactlyOnce ==
    (pc = "done" /\ status = <<0>> /\ LoopReached /\ runs = 1 /\ edits = 0
        /\ faults = 0 /\ ~cfg.Force)
    => \A j \in Positions :
          Versioned(j) =>
             \A n \in 1..Len(StatementsAt(j)) :
                Cardinality({c \in FileCalls :
                                /\ calls[c].op = "Execute"
                                /\ calls[c].file = sqlfiles[j]
                                /\ calls[c].index = n
                                /\ calls[c].ok}) = 1

\* C2: without -force, a versioned file whose version is in the loaded state
\* with the file's checksum is skipped: no call is made for it (no
\* statement, no insert), the run neither executes nor aborts at it, and the
\* skipped counter counts exactly the matching files passed so far.
C2_MatchingFileSkipped ==
    LoopReached =>
       /\ \A j \in Positions : Matching(j) => CallsAt(j) = {}
       /\ (pos \in Positions /\ Matching(pos)) => pc = "file"
       /\ migrationsSkipped = Cardinality({j \in Positions : j < pos /\ Matching(j)})

C2_Witness ==
    /\ pc = "done" /\ status = <<0>> /\ LoopReached
    /\ \E j \in Positions : Matching(j) /\ j < pos /\ j < Len(sqlfiles)

\* C3: without -force, a file whose version is in the loaded state with
\* another checksum stops the run: the loop never passes it, no call is made
\* for it or for a later file, and the run ends at it with status 1 and one
\* message that carries version, path, expected and current checksum.
C3_MismatchRejected ==
    LoopReached =>
       \A j \in Positions :
          Mismatching(j) =>
             /\ pos <= j
             /\ \A c \in FileCalls : calls[c].at < j
             /\ pos = j => pc \in {"file", "done"}
             /\ (pos = j /\ pc = "done") =>
                   /\ status = <<1>>
                   /\ stderr = <<[msg |-> "ChecksumMismatch",
                                  version |-> InfoAt(j).Version,
                                  file |-> sqlfiles[j],
                                  expected |-> appliedMigrations[InfoAt(j).Version],
                                  current |-> InfoAt(j).Checksum]>>

C3_Witness ==
    /\ pc = "done" /\ LoopReached /\ pos \in Positions /\ Mismatching(pos)
    /\ pos < Len(sqlfiles)

\* a step of the loop on a file has exactly one of the outcomes skip,
\* reject and apply, and without -force the outcome is the one the file's
\* version and checksum and the loaded state determine.
C4_Skipped == migrationsSkipped' = migrationsSkipped + 1 /\ pos' = pos + 1 /\ pc' = "file"
C4_Rejected ==
    /\ pc' = "done" /\ status' = <<1>>
    /\ stderr' # <<>> /\ Last(stderr').msg = "ChecksumMismatch"
C4_Applied ==
    \E m \in DOMAIN stdout' :
       /\ m > Len(stdout)
       /\ stdout'[m] = [msg |-> "ExecutingSQLFile", file |-> CurFile]
C4_Expected ==
    IF CurInfo.Version = <<>> THEN "apply"
    ELSE IF CurInfo.Version \notin DOMAIN appliedMigrations THEN "apply"
    ELSE IF appliedMigrations[CurInfo.Version] = CurInfo.Checksum THEN "skip"
    ELSE "reject"
C4_OneOutcomeStep ==
    InLoop =>
       /\ C4_Skipped \/ C4_Rejected \/ C4_Applied
       /\ ~(C4_Skipped /\ C4_Rejected)
       /\ ~(C4_Skipped /\ C4_Applied)
       /\ ~(C4_Rejected /\ C4_Applied)
       /\ ~cfg.Force =>
             /\ C4_Expected = "skip" => C4_Skipped
             /\ C4_Expected = "reject" => C4_Rejected
             /\ C4_Expected = "apply" => C4_Applied
\* C4: every step of the file loop takes exactly one of skip, reject and
\* apply, the one the version, the checksum and the loaded state determine.
C4_OneOutcome == [][C4_OneOutcomeStep]_vars

C4_Witness ==
    /\ pc = "done" /\ ~cfg.Force /\ LoopReached
    /\ migrationsSkipped > 0
    /\ pos \in Positions /\ Mismatching(pos)

\* the statements of the file at position j were all executed, successfully
FullyExecutedAt(j) ==
    /\ disk[sqlfiles[j]] # NoFile
    /\ {calls[c].index : c \in {d \in ExecutionsAt(j) : calls[d].ok}}
          = 1..Len(StatementsAt(j))

\* C5: a file without a version is never recorded and never skipped or
\* rejected: no insert is issued for it, with or without -force and whatever
\* the loaded state holds; once the loop has passed it all its statements
\* were executed, and the run stops at it only on an execution error.  No
\* ledger row has an empty version.
C5_UnversionedAlwaysExecuted ==
    /\ \A r \in BagToSet(ledger) : r.version # <<>>
    /\ LoopReached =>
          \A j \in Positions :
             ~Versioned(j) =>
                /\ InsertsAt(j) = {}
                /\ j < pos => FullyExecutedAt(j)
                /\ pos = j => pc # "record"
                /\ (pos = j /\ pc = "done") =>
                      /\ status = <<1>>
                      /\ Last(stderr).msg = "ErrorExecuting"

C5_Witness ==
    /\ pc = "done" /\ status = <<0>> /\ LoopReached /\ runs = 2
    /\ appliedMigrations # <<>>
    /\ \E j \in Positions : ~Versioned(j) /\ j < pos /\ ExecutionsAt(j) # {}

\* C6: with -force no file is skipped or rejected; every versioned file the
\* loop has passed had all its statements executed and then exactly one
\* insert issued, whether or not its version was in the loaded state.
C6_ForceAppliesAll ==
    (LoopReached /\ cfg.Force) =>
       /\ migrationsSkipped = 0
       /\ \A m \in DOMAIN stderr : stderr[m].msg # "ChecksumMismatch"
       /\ \A j \in Positions :
             (Versioned(j) /\ j < pos) =>
                /\ FullyExecutedAt(j)
                /\ Cardinality(InsertsAt(j)) = 1
                /\ \A c \in ExecutionsAt(j), d \in InsertsAt(j) : c < d
                /\ \A d \in InsertsAt(j) :
                      calls[d].values = recordMigration(InfoAt(j))

\* a forced run has inserted a row for a version that the loaded state holds
\* with the same checksum, and for one it holds with another checksum
C6_Witness ==
    /\ pc = "done" /\ status = <<0>> /\ LoopReached /\ cfg.Force
    /\ \E j \in Positions :
          /\ Versioned(j) /\ Known(j) /\ InsertsAt(j) # {}
          /\ appliedMigrations[InfoAt(j).Version] = InfoAt(j).Checksum
    /\ \E j \in Positions :
          /\ Versioned(j) /\ Known(j) /\ InsertsAt(j) # {}
          /\ appliedMigrations[InfoAt(j).Version] # InfoAt(j).Checksum

\* C7: the ledger holds at most one row per version.
C7_OneRowPerVersion ==
    \A r1 \in BagToSet(ledger) :
       /\ CopiesIn(r1, ledger) = 1
       /\ \A r2 \in BagToSet(ledger) : r2.version = r1.version => r2 = r1

\* a step changes the ledger only by adding the one row of the insert
\* that recordMigration issues for the current file: every row present
\* before the step is still there, and the number of rows never decreases.
C8_AppendOnlyStep ==
    /\ ledger \sqsubseteq ledger'
    /\ BagCardinality(ledger') >= BagCardinality(ledger)
    /\ ledger' # ledger =>
          /\ pc = "record"
          /\ calls' = Append(calls, [op |-> "Insert", at |-> pos, file |-> CurFile,
                                     values |-> recordMigration(info), ok |-> TRUE])
          /\ ledger' = ledger (+) SetToBag({InsertedRow(recordMigration(info))})
\* C8: every step keeps the rows of the ledger and adds at most the row of
\* the insert issued by recordMigration.
C8_AppendOnly == [][C8_AppendOnlyStep]_vars

\* a run has added a row for a version of which the ledger had a row already
C8_Witness ==
    /\ pc = "file" /\ calls # <<>> /\ Last(calls).op = "Insert" /\ Last(calls).ok
    /\ \E r \in BagToSet(ledger) :
          /\ r.version = InsertedRow(Last(calls).values).version
          /\ r # InsertedRow(Last(calls).values) \/ CopiesIn(r, ledger) > 1

\* C9: a failed statement is the last call of the run: the run has returned
\* 1 with the message naming the file and the statement's index k; the calls
\* for the file are statements 1..k in order, each once, all but the last
\* successful; no insert was issued for the file and no call for a later one.
C9_FailFast ==
    \A c \in FileCalls :
       (calls[c].op = "Execute" /\ ~calls[c].ok) =>
          LET j == calls[c].at
              n == calls[c].index
          IN /\ c = Len(calls)
             /\ pc = "done" /\ status = <<1>>
             /\ pos = j /\ calls[c].file = sqlfiles[j]
             /\ stderr = <<[msg |-> "ErrorExecuting", file |-> sqlfiles[j],
                            cause |-> "StatementFailed", statement |-> n]>>
             /\ CallsAt(j) = (c - n + 1)..c
             /\ \A d \in CallsAt(j) :
                   /\ calls[d].op = "Execute"
                   /\ calls[d].index = n - (c - d)
                   /\ calls[d].sql = StatementsAt(j)[calls[d].index]
                   /\ d # c => calls[d].ok
             /\ \A d \in FileCalls : calls[d].at <= j

\* the second statement of a file has failed
C9_Witness ==
    /\ pc = "done" /\ calls # <<>>
    /\ Last(calls).op = "Execute" /\ ~Last(calls).ok /\ Last(calls).index = 2

\* a call made for a file of the resolved list
C10_IsFileCall(c) == c \in DOMAIN calls /\ calls[c].op \in {"Execute", "Insert"}

\* C10: the calls of a run follow the manifest.  Each call for a file comes
\* right after the call the code's order requires: statement 1 of a file
\* after the last call of an earlier position (or as the first file call),
\* statement n > 1 after the successful statement n-1 of the same file, the
\* insert of a versioned file after its successful last statement.  A
\* versioned file the loop has applied and passed has its insert, so every
\* statement of a later file comes after the insert of an earlier one.
C10_ManifestOrder ==
    /\ \A c \in DOMAIN calls :
          C10_IsFileCall(c) =>
             LET j == calls[c].at
                 prev == calls[c - 1]
                 first == ~C10_IsFileCall(c - 1) \/ prev.at < j
                 afterStatement(n) ==
                    /\ C10_IsFileCall(c - 1)
                    /\ prev.op = "Execute" /\ prev.at = j /\ prev.index = n /\ prev.ok
             IN /\ c > 1
                /\ calls[c].file = sqlfiles[j]
                /\ calls[c].op = "Execute" =>
                      /\ calls[c].index \in 1..Len(StatementsAt(j))
                      /\ calls[c].sql = StatementsAt(j)[calls[c].index]
                      /\ IF calls[c].index = 1 THEN first
                         ELSE afterStatement(calls[c].index - 1)
                /\ calls[c].op = "Insert" =>
                      /\ Versioned(j)
                      /\ IF StatementsAt(j) = <<>> THEN first
                         ELSE afterStatement(Len(StatementsAt(j)))
    /\ LoopReached =>
          \A j \in Positions :
             (j < pos /\ Versioned(j) /\ ~Matching(j)) => InsertsAt(j) # {}

\* two statements and the insert of the first file, then a later file
C10_Witness ==
    /\ pc = "done" /\ status = <<0>>
    /\ Cardinality(ExecutionsAt(1)) = 2 /\ InsertsAt(1) # {}
    /\ ExecutionsAt(2) # {} /\ InsertsAt(2) # {} /\ ExecutionsAt(3) # {}

(***************************************************************************)
(* Runs that follow one another, and the failures a run survives.          *)
(***************************************************************************)
VersionedPositions == {j \in Positions : Versioned(j)}

\* C11: a non-forced run in which no call fails, started right after a run
\* over the same manifest and the same files that returned 0 with every
\* insert successful, makes no call for a versioned file, and ends with
\* status 0 and every versioned file counted as skipped.
C11_IdempotentRerun ==
    (LoopReached /\ previous = <<cfg.Path>> /\ ~cfg.Force
        /\ \A c \in DOMAIN calls : calls[c].ok) =>
       /\ \A j \in VersionedPositions : CallsAt(j) = {}
       /\ pc = "done" =>
             /\ status = <<0>>
             /\ migrationsSkipped = Cardinality(VersionedPositions)

\* the query of line 208 has failed in this run
QueryFailed ==
    \E c \in DOMAIN calls :
       calls[c].op = "Query" /\ calls[c].table = "applied" /\ ~calls[c].ok

\* C12: a failed ledger query does not end the run: the loaded state is
\* empty, the run goes on to resolve the manifest, no file is skipped or
\* rejected, every versioned file the loop has passed had all its statements
\* executed and its insert issued, and a status 1 comes from the manifest or
\* from the execution of a file, never from the query.
C12_QueryFailureNotFatal ==
    QueryFailed =>
       /\ appliedMigrations = <<>>
       /\ pc = "done" =>
             \/ LoopReached
             \/ stderr = <<[msg |-> "ErrorProcessingIndex"]>>
       /\ migrationsSkipped = 0
       /\ \A m \in DOMAIN stderr :
             stderr[m].msg \in {"ErrorProcessingIndex", "ErrorExecuting"}
       /\ LoopReached =>
             \A j \in Positions :
                (Versioned(j) /\ j < pos) =>
                   /\ FullyExecutedAt(j)
                   /\ Cardinality(InsertsAt(j)) = 1

\* the query has failed on a ledger that holds the versions of the files,
\* and the run has applied all three files of the manifest again
C12_Witness ==
    /\ pc = "done" /\ status = <<0>> /\ QueryFailed /\ ~cfg.Force
    /\ migrationsApplied = 3
    /\ \A j \in VersionedPositions :
          \E r \in BagToSet(ledger) : CopiesIn(r, ledger) > 1
                                      /\ r.version = InfoAt(j).Version

\* C13: a run whose ledger query has failed has written a note about it,
\* with or without -debug.
C13_QueryFailureReported ==
    QueryFailed =>
       \/ \E m \in DOMAIN stdout : stdout[m].msg = "NoteCouldNotQuery"
       \/ \E m \in DOMAIN stderr : stderr[m].msg = "NoteCouldNotQuery"

\* the positions the loop has passed without skipping them
AppliedPositions == {j \in 1..(pos - 1) : ~Matching(j)}

\* C14: a failed insert is a warning only.  The warning with the version is
\* on stdout, nothing about it on stderr; the loop has gone on to the next
\* file, the file is counted in migrationsApplied, no row was added for the
\* call, and a status 1 of the run comes from a later file.
C14_RecordFailureIsWarning ==
    \A c \in FileCalls :
       (calls[c].op = "Insert" /\ ~calls[c].ok) =>
          LET j == calls[c].at
          IN /\ pos > j
             /\ \E m \in DOMAIN stdout :
                   stdout[m] = [msg |-> "WarningCouldNotRecord",
                                version |-> InfoAt(j).Version]
             /\ j \in AppliedPositions
             /\ migrationsApplied = Cardinality(AppliedPositions)
             /\ \A m \in DOMAIN stderr :
                   /\ stderr[m].msg \in {"ErrorExecuting", "ChecksumMismatch"}
                   /\ stderr[m].file = sqlfiles[pos]
             /\ (pc = "done" /\ pos > Len(sqlfiles)) => status = <<0>>

\* the insert for the first file has failed and the run has completed with
\* all three files counted as applied; the ledger lacks the row
C14_Witness ==
    /\ pc = "done" /\ status = <<0>> /\ migrationsApplied = 3
    /\ \E c \in InsertsAt(1) :
          /\ ~calls[c].ok
          /\ \A r \in BagToSet(ledger) : r.version # InfoAt(1).Version
    /\ ExecutionsAt(2) # {} /\ ExecutionsAt(3) # {}

\* C15: a listed file that cannot be read is not passed over and not
\* recorded.  When the loop has handled it, the warning of the parser and
\* then the announcement of its execution are the last lines on stdout: the
\* file was taken as unversioned (neither skipped nor rejected, whatever the
\* loaded state holds) and the attempt to execute it has ended the run with
\* the read error; no call was made for it.
C15_UnreadableFileAttempted ==
    LoopReached =>
       \A j \in Positions :
          disk[sqlfiles[j]] = NoFile =>
             /\ ~Versioned(j)
             /\ j >= pos
             /\ CallsAt(j) = {}
             /\ j = pos => pc \in {"file", "done"}
             /\ (j = pos /\ pc = "done") =>
                   /\ Len(stdout) >= 2
                   /\ stdout[Len(stdout) - 1]
                         = [msg |-> "WarningCouldNotParse", file |-> sqlfiles[j]]
                   /\ stdout[Len(stdout)]
                         = [msg |-> "ExecutingSQLFile", file |-> sqlfiles[j]]
                   /\ status = <<1>>
                   /\ stderr = <<[msg |-> "ErrorExecuting", file |-> sqlfiles[j],
                                  cause |-> "FailedToReadSQLFile"]>>
                   /\ migrationsApplied + migrationsSkipped = j - 1

\* a file recorded by the first run was removed, and the second run,
\* without -force, has attempted it although the loaded state holds a version
\* for its name
C15_Witness ==
    /\ pc = "done" /\ LoopReached /\ ~cfg.Force /\ runs = 2
    /\ pos \in Positions /\ disk[sqlfiles[pos]] = NoFile
    /\ \E r \in BagToSet(ledger) : r.filename = Base(sqlfiles[pos])
    /\ appliedMigrations # <<>>
    /\ Last(stdout).msg = "ExecutingSQLFile"

\* C16: a failed connection ends the run at once with status 1: the failed
\* Connect is the only call of the run, the manifest was not read (nothing
\* on stdout, no resolved list) and no counter has moved.
C16_ConnectFailureFatal ==
    (\E c \in DOMAIN calls : calls[c].op = "Connect" /\ ~calls[c].ok) =>
       /\ pc = "done" /\ status = <<1>>
       /\ calls = <<[op |-> "Connect", ok |-> FALSE]>>
       /\ stderr = <<[msg |-> "ErrorConnecting"]>>
       /\ stdout = <<>> /\ sqlfiles = <<>>
       /\ appliedMigrations = <<>>
       /\ migrationsApplied = 0 /\ migrationsSkipped = 0

\* the connection of a second run has failed over a ledger with rows
C16_Witness ==
    /\ pc = "done" /\ runs = 2 /\ ledger # EmptyBag
    /\ calls # <<>> /\ Last(calls).op = "Connect" /\ ~Last(calls).ok

\* the manifest tree of the run, resolved on its own
ResolvedLists ==
    [p \in {c.Path : c \in RunConfigs} |-> processWithWriter(p, <<>>, <<>>, FALSE)]
Resolved == ResolvedLists[cfg.Path]

\* C17: a call for a file is made only with the whole manifest tree
\* resolved: the list is then the complete list of the tree and every
\* manifest was announced before the first file.  When a manifest of the
\* tree cannot be opened the run has ended after the resolution with status
\* 1, without a call for a file and with no file counted.
C17_ResolveBeforeExecute ==
    /\ (FileCalls # {} \/ pc \in {"file", "exec", "record"}) =>
          /\ ~Resolved.err
          /\ sqlfiles = Resolved.sqlfiles
    /\ \A m, n \in DOMAIN stdout :
          (stdout[m].msg = "ProcessingFile" /\ stdout[n].msg = "ExecutingSQLFile")
             => m < n
    /\ (Resolved.err /\ pc \notin {"idle", "connect", "version", "query", "resolve"}
           /\ \E c \in DOMAIN calls : calls[c].op = "Query" /\ calls[c].table = "applied")
          => /\ pc = "done" /\ status = <<1>>
             /\ stderr = <<[msg |-> "ErrorProcessingIndex"]>>
             /\ Last(stdout).msg = "ErrorOpeningFile"
             /\ FileCalls = {}
             /\ migrationsApplied = 0 /\ migrationsSkipped = 0

\* the run of the manifest that names a missing manifest after a SQL file
C17_Witness ==
    /\ pc = "done" /\ cfg.Path = PathBad /\ sqlfiles = <<PathA>>
    /\ status = <<1>> /\ Len(calls) = 2

\* the lines of the summary on stdout
Summaries == {m \in DOMAIN stdout : stdout[m].msg = "MigrationComplete"}

RECURSIVE Contexts(_, _, _)
Contexts(text, i, mode) ==
    IF i > Len(text) THEN <<>>
    ELSE LET ch == text[i]
             nextIs(c) == i + 1 <= Len(text) /\ text[i + 1] = c
             escaped == i > 1 /\ text[i - 1] = "\\"
             one(m) == <<mode>> \o Contexts(text, i + 1, m)
             two(m1, m2) == <<mode, m1>> \o Contexts(text, i + 2, m2)
         IN IF mode = "normal"
            THEN IF ch = "-" /\ nextIs("-") THEN two("line", "line")
                 ELSE IF ch = "/" /\ nextIs("*") THEN two("block", "block")
                 ELSE IF ch = "'" /\ ~escaped THEN one("single")
                 ELSE IF ch = "\"" /\ ~escaped THEN one("double")
                 ELSE one("normal")
            ELSE IF mode = "single"
            THEN IF ch = "'" /\ ~escaped THEN one("normal") ELSE one("single")
            ELSE IF mode = "double"
            THEN IF ch = "\"" /\ ~escaped THEN one("normal") ELSE one("double")
            ELSE IF mode = "line"
            THEN IF ch \in {"\n", "\r"} THEN one("normal") ELSE one("line")
            ELSE IF ch = "*" /\ nextIs("/") THEN two("block", "normal")
                 ELSE one("block")

\* the character at position i of the argument lies inside a literal or a
\* comment
Inside(i) == Contexts(input, 1, "normal")[i] # "normal"

\* the step consumes the rune at scan.i and ends the current segment there
SplitsHere == scan'.i = scan.i + 1 /\ scan'.current = <<>>

C19_Step ==
    (result = <<>> /\ scan.i <= Len(input) /\ input[scan.i] = ";" /\ scan' # scan) =>
       (SplitsHere <=> ~Inside(scan.i))

\* C19: the scanner ends a segment at a semicolon exactly when the semicolon
\* lies outside every single-quoted literal, double-quoted literal, line
\* comment and block comment of the text.
C19_SplitOnlyOutside == [][C19_Step]_vars

\* the text has no literal and no block comment left open at its end
Balanced(text) ==
    LET ctx == Contexts(text \o <<"\n">>, 1, "normal")
    IN ctx[Len(text) + 1] \in {"normal", "line"}

\* strings.Join(stmts, ";")
RECURSIVE JoinSemi(_)
JoinSemi(stmts) ==
    IF stmts = <<>> THEN <<>>
    ELSE IF Len(stmts) = 1 THEN stmts[1]
    ELSE stmts[1] \o <<";">> \o JoinSemi(Tail(stmts))

\* the text without its whitespace
RECURSIVE StripSpace(_)
StripSpace(text) ==
    IF text = <<>> THEN <<>>
    ELSE (IF IsSpace(Head(text)) THEN <<>> ELSE <<Head(text)>>)
         \o StripSpace(Tail(text))

\* C20 as claimed: for a balanced text the statements joined with ";" are
\* the text, whitespace aside.
C20_RoundTrip ==
    (result # <<>> /\ Balanced(input)) =>
       StripSpace(JoinSemi(result[1])) = StripSpace(input)

\* the statements are pieces of the text in order: before the first, after
\* the last and between two of them the text has whitespace and semicolons
\* only, and a semicolon at least between two statements
RECURSIVE PiecesOf(_, _, _)
PiecesOf(text, stmts, separated) ==
    IF stmts = <<>> THEN \A j \in DOMAIN text : IsSpace(text[j]) \/ text[j] = ";"
    ELSE IF separated /\ HasPrefix(text, stmts[1])
    THEN PiecesOf(SubSeq(text, Len(stmts[1]) + 1, Len(text)), Tail(stmts), FALSE)
    ELSE /\ text # <<>>
         /\ IsSpace(Head(text)) \/ Head(text) = ";"
         /\ PiecesOf(Tail(text), stmts, separated \/ Head(text) = ";")

\* C20: the statements returned are non-empty, trimmed pieces of the text in
\* their order, and what the text has besides them is whitespace around
\* them and the semicolons that end the segments: joined with ";" they are
\* the text without the whitespace around the statements, the empty
\* segments and the semicolon after the last statement.
C20_JoinedPieces ==
    result # <<>> =>
       /\ \A n \in DOMAIN result[1] :
             result[1][n] # <<>> /\ TrimSpace(result[1][n]) = result[1][n]
       /\ PiecesOf(input, result[1], TRUE)

\* two statements from a text with more than the two and one semicolon
C20_Witness ==
    /\ result # <<>> /\ Len(result[1]) = 2
    /\ Balanced(input) /\ JoinSemi(result[1]) # input

\* a statement as the splitter may return it
Clean(stmt) == stmt # <<>> /\ ~IsSpace(stmt[1]) /\ ~IsSpace(stmt[Len(stmt)])

\* C21: every statement collected so far and every statement returned is
\* non-empty and neither begins nor ends with whitespace, and a text of
\* whitespace and semicolons only (the empty text too) gives no statement.
C21_StatementsClean ==
    /\ \A n \in DOMAIN scan.statements : Clean(scan.statements[n])
    /\ result # <<>> =>
          /\ \A n \in DOMAIN result[1] : Clean(result[1][n])
          /\ (\A j \in DOMAIN input : IsSpace(input[j]) \/ input[j] = ";")
                => result[1] = <<>>

\* segments with whitespace around the text, and an empty segment between
\* two semicolons, have given one clean statement
C21_Witness ==
    /\ result = << <<<<"a">>>> >>
    /\ input = <<"\n", "a", ";", ";">>

(***************************************************************************)
(* The resolver against the manifest tree as a document.                   *)
(***************************************************************************)
\* the entries of a manifest: its lines without blanks and comments
Entries(tr, path) ==
    LET lines == ScanLines(tr[path])
        kept == {n \in DOMAIN lines :
                    TrimSpace(lines[n]) # <<>> /\ TrimSpace(lines[n])[1] # "#"}
    IN [n \in kept |-> Dir(path) \o <<"/">> \o TrimSpace(lines[n])]

\* "./x" is x
Plain(path) == IF HasPrefix(path, <<".", "/">>) THEN SubSeq(path, 3, Len(path)) ELSE path

IsManifest(path) == HasSuffix(path, <<".", "l", "s", "t">>)
IsSQL(path) == HasSuffix(path, <<".", "s", "q", "l">>)

\* the manifests a manifest refers to
Refs(tr, path) ==
    {Plain(Entries(tr, path)[n]) : n \in {e \in DOMAIN Entries(tr, path) :
                                            IsManifest(Entries(tr, path)[e])}}

\* a chain of references from the manifest comes back to a manifest of the
\* chain, before it comes to a manifest that does not exist
RECURSIVE CyclicFrom(_, _, _)
CyclicFrom(tr, path, chain) ==
    \/ path \in chain
    \/ /\ path \in DOMAIN tr
       /\ \E q \in Refs(tr, path) : CyclicFrom(tr, q, chain \cup {path})

\* every manifest that a chain of references from the manifest comes to
\* exists (for a tree without a cycle)
RECURSIVE ReadableFrom(_, _)
ReadableFrom(tr, path) ==
    /\ path \in DOMAIN tr
    /\ \A q \in Refs(tr, path) : ReadableFrom(tr, q)

\* the document order of a readable tree without a cycle: the entries of the
\* manifest from first to last, each SQL entry as the path from the
\* directory of the manifest, each manifest entry replaced by its own order
RECURSIVE DocumentOrder(_, _)
RECURSIVE DocumentOrderFrom(_, _, _)
DocumentOrder(tr, path) == DocumentOrderFrom(tr, path, 1)
DocumentOrderFrom(tr, path, n) ==
    IF n > Len(ScanLines(tr[path])) THEN <<>>
    ELSE (IF n \notin DOMAIN Entries(tr, path) THEN <<>>
          ELSE LET entry == Plain(Entries(tr, path)[n])
               IN IF IsManifest(entry) THEN DocumentOrder(tr, entry)
                  ELSE IF IsSQL(entry) THEN <<entry>>
                  ELSE <<>>)
         \o DocumentOrderFrom(tr, path, n + 1)

\* C22: when the resolver returns nil the list holds the SQL files of the
\* tree in document order, depth first and from left to right, each as the
\* entry joined to the directory of the manifest that lists it.
C22_DocumentOrder ==
    outcome = <<"nil">> => listed = DocumentOrder(tree, cfg.Path)

\* three levels: m.lst lists p.lst before a.sql, p.lst lists d/n.lst, and
\* d/n.lst lists b.sql after a comment and an unknown entry
C22_Witness ==
    /\ outcome = <<"nil">>
    /\ listed = <<PathB, PathA>>
    /\ \E n \in DOMAIN printed : printed[n].msg = "WarningUnknownFileType"

\* C23: the resolution of a readable tree without a cycle returns nil in the
\* end; the resolution of a tree with a cycle never returns nil.
C23_TerminatesUnlessCyclic ==
    /\ (~CyclicFrom(tree, cfg.Path, {}) /\ ReadableFrom(tree, cfg.Path))
          ~> (outcome = <<"nil">> /\ frames = <<>>)
    /\ [](CyclicFrom(tree, cfg.Path, {}) => outcome # <<"nil">>)

\* m.lst refers to p.lst and p.lst to m.lst: the call for m.lst is active
\* a second time
C23_Witness ==
    /\ Len(frames) >= 3
    /\ frames[1].path = PathM /\ frames[2].path = PathP /\ frames[3].path = PathM

\* the lines of the file of the first call and the window of line 360
GivenLines == ScanLines(given.content)

HeaderWindow(lines) == 1..(IF Len(lines) < HeaderLines THEN Len(lines) ELSE HeaderLines)

\* the lines among the first n that match the pattern of a field
MatchingLines(lines, key, n) == {j \in 1..n : HeaderMatch(lines[j], key)[1]}

\* the value a field has after line n: the one of the last matching line
FieldAt(lines, key, n) ==
    LET ms == MatchingLines(lines, key, n)
    IN IF ms = {} THEN <<>>
       ELSE HeaderMatch(lines[CHOOSE j \in ms : \A i \in ms : i <= j], key)[2]

\* the line after which the loop is left: the first of the window after
\* which both fields are non-empty, or the last of the window
StopLine(lines) ==
    LET w == HeaderWindow(lines)
        both == {n \in w : /\ FieldAt(lines, VersionKey, n) # <<>>
                           /\ FieldAt(lines, DescriptionKey, n) # <<>>}
    IN IF both = {} THEN Cardinality(w)
       ELSE CHOOSE n \in both : \A i \in both : n <= i

C27_FirstMatchWins ==
    parsed # <<>> =>
        \A key \in {VersionKey, DescriptionKey} :
            LET ms == MatchingLines(GivenLines, key, Cardinality(HeaderWindow(GivenLines)))
                value == IF key = VersionKey THEN parsed[1].Version ELSE parsed[1].Description
            IN ms # {} =>
                 value = HeaderMatch(GivenLines[CHOOSE j \in ms : \A i \in ms : j <= i], key)[2]

\* C26: a run with -version that has connected makes one more call, the
\* query of the history, prints its outcome and returns 0: no manifest is
\* read, no statement is executed and no row is inserted, with or without
\* -force and whether or not the manifest exists.
C26_VersionOnly ==
    (cfg.ShowVersion /\ calls # <<>> /\ calls[1].ok) =>
       /\ pc \in {"version", "done"}
       /\ sqlfiles = <<>> /\ appliedMigrations = <<>> /\ stderr = <<>>
       /\ migrationsApplied = 0 /\ migrationsSkipped = 0
       /\ \A c \in DOMAIN calls : calls[c].op \notin {"Execute", "Insert"}
       /\ pc = "version" => calls = <<[op |-> "Connect", ok |-> TRUE]>> /\ stdout = <<>>
       /\ pc = "done" =>
             /\ status = <<0>>
             /\ Len(calls) = 2
             /\ calls[2].op = "Query" /\ calls[2].table = "history"
             /\ Len(stdout) = 1
             /\ stdout[1].msg = (IF ~calls[2].ok THEN "CouldNotQuerySchemaVersion"
                                 ELSE IF ledger = EmptyBag THEN "NoMigrationsApplied"
                                 ELSE "SchemaVersionHistory")

\* -version without -force on a manifest that does not exist, over a
\* ledger with rows
C26_Witness ==
    /\ pc = "done" /\ cfg.ShowVersion /\ ~cfg.Force /\ cfg.Path = PathMissing
    /\ status = <<0>> /\ ledger # EmptyBag
    /\ Len(calls) = 2 /\ calls[2].ok

\* the queries of the applied state made in this run
AppliedQueries == {c \in DOMAIN calls : calls[c].op = "Query" /\ calls[c].table = "applied"}

C28_State ==
    (~cfg.ShowVersion /\ calls # <<>> /\ calls[1].ok) =>
       /\ pc = "query" =>
             calls = <<[op |-> "Connect", ok |-> TRUE]>> /\ sqlfiles = <<>> /\ stdout = <<>>
       /\ pc # "query" => AppliedQueries = {2}
       /\ pc = "resolve" =>
             /\ Len(calls) = 2 /\ sqlfiles = <<>>
             /\ \A n \in DOMAIN stdout : stdout[n].msg = "NoteCouldNotQuery"

C28_Step ==
    pc \in {"resolve", "file", "exec", "record"} => appliedMigrations' = appliedMigrations

\* C28: a migration run that has connected queries the ledger once, as its
\* second call, before it reads the manifest and before any statement, and
\* no step from the resolution to the end of the loop changes the loaded
\* version -> checksum mapping, inserts of the run included.
C28_LoadedOnce == []C28_State /\ [][C28_Step]_vars

\* the loop is at a file whose version this run has inserted a row for,
\* and the loaded state still does not know the version
C28_Witness ==
    /\ InLoop /\ ~cfg.Force
    /\ CurInfo.Version # <<>> /\ CurInfo.Version \notin DOMAIN appliedMigrations
    /\ \E c \in DOMAIN calls :
          /\ calls[c].op = "Insert" /\ calls[c].ok
          /\ InsertedRow(calls[c].values).version = CurInfo.Version
    /\ CurDecision = "apply"

\* the versions the rows carry as non-empty strings
StringVersions == {AsString(returned[j].version) : j \in DOMAIN returned} \ {<<>>}

\* the last row of a version
LastRowOf(v) ==
    CHOOSE j \in DOMAIN returned :
        /\ AsString(returned[j].version) = v
        /\ \A i \in DOMAIN returned : i > j => AsString(returned[i].version) # v

\* C29: the mapping has one entry for each version that some row carries
\* as a non-empty string and no other entry, and the entry is the checksum
\* of the last row of that version.
C29_LastRowWins ==
    mapping # <<>> =>
        /\ DOMAIN mapping[1] = StringVersions
        /\ \A v \in StringVersions :
              mapping[1][v] = AsString(returned[LastRowOf(v)].checksum)

\* two rows of version 1 with different checksums around a row whose
\* version is not a string
C29_Witness ==
    /\ mapping # <<>>
    /\ returned = <<[version |-> String(<<"1">>), checksum |-> String(<<"c">>)],
                    [version |-> NotAString, checksum |-> String(<<"c">>)],
                    [version |-> String(<<"1">>), checksum |-> String(<<"d">>)]>>
    /\ mapping[1] = (<<"1">> :> <<"d">>)

ScanFlags == {"inSingleQuote", "inDoubleQuote", "inLineComment", "inBlockComment"}

\* C30: before and after every iteration of the scanner's loop at most one
\* of the four mode flags is set.
C30_FlagsExclusive == Cardinality({f \in ScanFlags : scan[f]}) <= 1

\* a single quote read inside a block comment: only inBlockComment is set
C30_Witness ==
    /\ scan.i = 4 /\ Len(input) >= 3
    /\ input[1] = "/" /\ input[2] = "*" /\ input[3] = "'"
    /\ scan.inBlockComment /\ ~scan.inSingleQuote

\* the mode flags that are set in a state of the scanner
FlagsSet(st) == {f \in ScanFlags : st[f]}

C31_Step ==
    (result = <<>> /\ scan.i <= Len(input) /\ scan' # scan) =>
       LET ch == input[scan.i]
       IN /\ \A f \in ScanFlags : (~scan[f] /\ scan'[f]) => FlagsSet(scan) = {}
          /\ (scan.inLineComment /\ ~scan'.inLineComment) => ch \in {"\n", "\r"}
          /\ (scan.inLineComment /\ ch \in {"\n", "\r"}) => FlagsSet(scan') = {}
          /\ (FlagsSet(scan) = {} /\ ch = ";") => SplitsHere

\* C31: an iteration sets a mode flag only when no flag was set before it
\* (a quote inside a comment opens no literal, -- or /* inside a literal
\* opens no comment), a line comment is left at a line feed or carriage
\* return and at nothing else, and a semicolon read with no flag set ends
\* the segment.
C31_ModeFromNormal == [][C31_Step]_vars

\* a line comment ended by a carriage return, and the semicolon after it
\* has split
C31_Witness ==
    /\ input = <<"-", "-", "\r", ";">>
    /\ scan.i = 5 /\ scan.statements = << <<"-", "-">> >> /\ scan.current = <<>>

C32_Step ==
    (result = <<>> /\ scan.i <= Len(input) /\ scan' # scan) =>
       LET ch == input[scan.i]
           escaped == scan.i > 1 /\ input[scan.i - 1] = "\\"
           inLiteral == scan.inSingleQuote \/ scan.inDoubleQuote
       IN /\ (ch \in {"'", "\""} /\ escaped) =>
                /\ scan'.inSingleQuote = scan.inSingleQuote
                /\ scan'.inDoubleQuote = scan.inDoubleQuote
                /\ scan'.current = Append(scan.current, ch)
          /\ (ch = ";" /\ inLiteral) =>
                /\ ~SplitsHere
                /\ scan'.statements = scan.statements
                /\ scan'.inSingleQuote = scan.inSingleQuote
                /\ scan'.inDoubleQuote = scan.inDoubleQuote
          /\ (ch = "'" /\ scan.inSingleQuote /\ ~escaped) => FlagsSet(scan') = {}
          /\ (ch = "\"" /\ scan.inDoubleQuote /\ ~escaped) => FlagsSet(scan') = {}

\* C32: a quote character right after a backslash leaves both literal flags
\* as they were, so it neither opens nor closes a literal; a semicolon read
\* inside a literal does not end the segment; and the quote of the
\* literal's kind that follows no backslash closes it.
C32_EscapedQuote == [][C32_Step]_vars

\* the literal '\'; : the escaped quote has not closed it and the semicolon
\* has not split
C32_Witness ==
    /\ input = <<"'", "\\", "'", ";">>
    /\ scan.i = 5 /\ scan.inSingleQuote /\ scan.statements = <<>>
    /\ scan.current = input

\* the text that follows the last boundary is not blank
OpenTail == TrimSpace(scan.current) # <<>>

\* C33 as claimed: a text whose last statement has no semicolon gives the
\* statements of the same text with a semicolon appended.
C33_SameWithSemicolon ==
    (result # <<>> /\ OpenTail) => result[1] = splitSQLStatements(input \o <<";">>)

\* C33: the text after the last boundary, trimmed, is the last statement
\* returned when it is not blank; and when the scan ends with no mode flag
\* set, the statements are those of the text with a semicolon appended.
C33_FinalBuffer ==
    (result # <<>> /\ OpenTail) =>
       /\ result[1] = Append(scan.statements, TrimSpace(scan.current))
       /\ FlagsSet(scan) = {} => result[1] = splitSQLStatements(input \o <<";">>)

\* a;a has returned two statements
C33_Witness ==
    /\ input = <<"a", ";", "a">>
    /\ result = << << <<"a">>, <<"a">> >> >>
    /\ FlagsSet(scan) = {}

\* the contexts of the argument and of the end of the text after it
InputContexts == Contexts(input \o <<"\n">>, 1, "normal")
FinalContext == InputContexts[Len(input) + 1]

\* the position of the opener of the literal or block comment that the text
\* leaves open: the quote before the first character read in the final
\* context for good, or the / of the comment
Opener ==
    LET first == CHOOSE j \in 1..(Len(input) + 1) :
                    /\ \A i \in j..(Len(input) + 1) : InputContexts[i] = FinalContext
                    /\ j > 1 => InputContexts[j - 1] # FinalContext
    IN IF FinalContext = "block" THEN first ELSE first - 1

\* C34: when the text leaves a literal or a block comment open, the call
\* returns, and the text from the opener to the end is the end of the last
\* statement returned, semicolons included.
C34_UnterminatedTail ==
    (result # <<>> /\ FinalContext \in {"single", "double", "block"}) =>
       /\ result[1] # <<>>
       /\ HasSuffix(Last(result[1]), TrimRight(SubSeq(input, Opener, Len(input))))

\* a manifest line that names a SQL file or a manifest
IsEntry(line) == IsSQL(TrimSpace(line)) \/ IsManifest(TrimSpace(line))
IsComment(line) == TrimSpace(line) = <<>> \/ HasPrefix(TrimSpace(line), <<"#">>)

\* the tree with the blank lines, the comments and the entries of unknown
\* type taken out of every manifest
Stripped(tr) == [p \in DOMAIN tr |-> Text(SelectSeq(ScanLines(tr[p]), IsEntry))]

\* the entries of unknown type in the order the resolution comes to them
RECURSIVE UnknownOrder(_, _)
RECURSIVE UnknownOrderFrom(_, _, _)
UnknownOrder(tr, path) == UnknownOrderFrom(tr, path, 1)
UnknownOrderFrom(tr, path, n) ==
    LET lines == ScanLines(tr[path])
    IN IF n > Len(lines) THEN <<>>
       ELSE (IF IsComment(lines[n]) THEN <<>>
             ELSE IF IsManifest(TrimSpace(lines[n]))
             THEN UnknownOrder(tr, Join(Dir(path), TrimSpace(lines[n])))
             ELSE IF IsSQL(TrimSpace(lines[n])) THEN <<>>
             ELSE <<TrimSpace(lines[n])>>)
            \o UnknownOrderFrom(tr, path, n + 1)

Warnings == SelectSeq(printed, LAMBDA line : line.msg = "WarningUnknownFileType")

\* C35: blank lines, comments and entries of unknown type add nothing to
\* the list: a call that returns nil returns the list of the tree without
\* them, it has printed one warning for each entry of unknown type it came
\* to, in order, and an error return is never due to such a line but to a
\* manifest that could not be opened.
C35_NoiseDropped ==
    /\ outcome = <<"nil">> =>
          /\ listed = DocumentOrder(Stripped(tree), cfg.Path)
          /\ [n \in DOMAIN Warnings |-> Warnings[n].file] = UnknownOrder(tree, cfg.Path)
    /\ outcome = <<"err">> => Last(printed).msg = "ErrorOpeningFile"

\* d/n.lst lists c.sql, a blank line, x.txt and b.sql: both files are
\* listed, around one warning
C35_Witness ==
    /\ outcome = <<"nil">>
    /\ listed = <<<<"d", "/", "c", ".", "s", "q", "l">>, PathB>>
    /\ Len(Warnings) = 1

\* the run has ended at position pos with a checksum mismatch or a failed
\* statement
AbortedInLoop ==
    /\ pc = "done" /\ status = <<1>> /\ LoopReached /\ stderr # <<>>
    /\ \/ Last(stderr).msg = "ChecksumMismatch"
       \/ Last(stderr).msg = "ErrorExecuting" /\ Last(stderr).cause = "StatementFailed"

\* C36: when a run has ended at position pos with a checksum mismatch or a
\* failed statement, every file before pos was either skipped without a
\* call or had all its statements executed and, when it has a version, its
\* insert issued; and the row of every successful insert of the run is in
\* the ledger.
C36_NoValidationPass ==
    AbortedInLoop =>
       /\ pos \in Positions
       /\ \A j \in 1..(pos - 1) :
             \/ Matching(j) /\ CallsAt(j) = {}
             \/ /\ ~Matching(j) /\ ~Mismatching(j)
                /\ FullyExecutedAt(j)
                /\ Cardinality(InsertsAt(j)) = (IF Versioned(j) THEN 1 ELSE 0)
       /\ \A c \in FileCalls :
             (calls[c].op = "Insert" /\ calls[c].ok) =>
                BagIn(InsertedRow(calls[c].values), ledger)

\* a statement of the second file has failed after the first file was
\* executed and recorded in the same run
C36_Witness ==
    /\ AbortedInLoop /\ pos = 2
    /\ Last(stderr).msg = "ErrorExecuting"
    /\ \E c \in InsertsAt(1) : calls[c].ok

\* the successful inserts of this run that have added the row
InsertsOf(row) ==
    {c \in FileCalls : calls[c].op = "Insert" /\ calls[c].ok
                         /\ InsertedRow(calls[c].values) = row}

\* the ledger held no row of the version of file j when the run began
NoRowAtStart(j) ==
    \A r \in BagToSet(ledger) :
        r.version = InfoAt(j).Version => CopiesIn(r, ledger) <= Cardinality(InsertsOf(r))

\* the calls for position j are the statements 1, 2, ... in order, then
\* possibly the insert
InOrderFromFirst(j) ==
    \A c \in ExecutionsAt(j) :
        calls[c].index = Cardinality({d \in ExecutionsAt(j) : d <= c})

\* C37: an insert for a file follows the successful execution of every
\* statement of the file; and a non-forced run treats a versioned file that
\* had no row when the run began as new: it does not skip or reject it and
\* executes its statements from the first one on, whatever the backend has
\* executed before.
C37_RecordAfterStatements ==
    /\ \A c \in FileCalls :
          calls[c].op = "Insert" =>
             LET j == calls[c].at
                 done == {d \in ExecutionsAt(j) : d < c /\ calls[d].ok}
             IN /\ Versioned(j)
                /\ {calls[d].index : d \in done} = 1..Len(StatementsAt(j))
                /\ \A d \in ExecutionsAt(j) : d < c
    /\ (LoopReached /\ ~cfg.Force) =>
          \A j \in Positions :
             (j <= pos /\ Versioned(j) /\ NoRowAtStart(j)) =>
                /\ ~Matching(j) /\ ~Mismatching(j)
                /\ InOrderFromFirst(j)
                /\ j < pos => FullyExecutedAt(j)

\* the second, non-forced run is at a.sql and has executed its first
\* statement again: the ledger holds the row of d/b.sql, which only the first
\* run can have added, after it executed a.sql without leaving a row
C37_Witness ==
    /\ runs = 2 /\ edits = 0 /\ ~cfg.Force /\ cfg.Path = PathM
    /\ pc = "exec" /\ pos = 1 /\ k = 2
    /\ NoRowAtStart(1) /\ Versioned(1)
    /\ \E c \in ExecutionsAt(1) : calls[c].index = 1 /\ calls[c].ok
    /\ \E r \in BagToSet(ledger) : r.version = <<"2">>

\* the file at position j cannot be read
Unreadable(j) == disk[sqlfiles[j]] = NoFile

\* C38: the loop never goes past a file it cannot read.  When it has come
\* to one and acted, the run has ended with status 1 and the read error of
\* the execution; no call was made for the file or for a later one, every
\* file before it was skipped or executed and, with a version, had its
\* insert issued, and the rows of the successful inserts are in the ledger.
C38_UnreadableFileFatal ==
    LoopReached =>
       /\ \A j \in Positions : (j < pos) => ~Unreadable(j)
       /\ (pos \in Positions /\ Unreadable(pos) /\ pc # "file") =>
             /\ pc = "done" /\ status = <<1>>
             /\ stderr = <<[msg |-> "ErrorExecuting", file |-> sqlfiles[pos],
                            cause |-> "FailedToReadSQLFile"]>>
             /\ \A c \in FileCalls : calls[c].at < pos
             /\ \A j \in 1..(pos - 1) :
                   \/ Matching(j) /\ CallsAt(j) = {}
                   \/ /\ ~Matching(j) /\ FullyExecutedAt(j)
                      /\ Cardinality(InsertsAt(j)) = (IF Versioned(j) THEN 1 ELSE 0)
             /\ \A c \in FileCalls :
                   (calls[c].op = "Insert" /\ calls[c].ok) =>
                      BagIn(InsertedRow(calls[c].values), ledger)

\* d/b.sql is gone: the run has ended at position 2 after a.sql was
\* executed and recorded
C38_Witness ==
    /\ pc = "done" /\ status = <<1>> /\ LoopReached
    /\ pos = 2 /\ sqlfiles[2] = PathB /\ Unreadable(2)
    /\ \E c \in InsertsAt(1) : calls[c].ok
    /\ Len(sqlfiles) = 3

\* the row that recording the first call's file adds, and the state a run
\* loads from a ledger that holds this row
RowOfParsed == InsertedRow(recordMigration(parsed[1]))
LoadedAfterParsed == getAppliedMigrations(SelectVersionChecksum(<<RowOfParsed>>))

\* loaded states that know no version, or one version with the checksum of
\* the file or with another one
LoadedStates ==
    {<<>>} \cup {(v :> c) : v \in {<<"1">>, <<"2">>}, c \in {parsed[1].Checksum, <<"x">>}}

\* C39: for a file and the same bytes under another path the decision is
\* the same, forced or not and whatever the loaded state is; once the file
\* was recorded, the moved file is skipped, and the row carries the name the
\* file had when it was recorded.
C39_DecisionIgnoresPath ==
    (reparsed # <<>> /\ changed[1].content = given.content) =>
       /\ \A force \in BOOLEAN, known \in LoadedStates :
             Decide(force, reparsed[1], known) = Decide(force, parsed[1], known)
       /\ parsed[1].Version # <<>> =>
             /\ Decide(FALSE, reparsed[1], LoadedAfterParsed) = "skip"
             /\ RowOfParsed.filename = Base(given.path)

\* a.sql with version 1 was parsed, then found as d/b.sql with the same
\* bytes
C39_Witness ==
    /\ reparsed # <<>>
    /\ changed[1].path = PathB /\ changed[1].content = given.content
    /\ parsed[1].Version = <<"1">>
    /\ reparsed[1].Filename # parsed[1].Filename

\* the statements of each file content, comments included, written out
ExpectedStatements ==
    (ContentV1 :> << <<"-", "-", " ", "v", "e", "r", "s", "i", "o", "n", ":", " ", "1", "\n", "A">>,
                     <<"B">> >>)
    @@ (ContentV1b :> << <<"-", "-", " ", "v", "e", "r", "s", "i", "o", "n", ":", " ", "1", "\n", "A">>,
                         <<"C">> >>)
    @@ (ContentV2 :> << <<"-", "-", "v", "e", "r", "s", "i", "o", "n", ":", "2", "\n",
                          "-", "-", "d", "e", "s", "c", "r", "i", "p", "t", "i", "o", "n", ":",
                          "x", "'", "\n", "D">> >>)
    @@ (ContentU :> << <<"U">>, <<"-", "-", "u">> >>)

\* C40: the statements sent to the backend carry the comment text of the
\* file verbatim, and a segment that holds only a comment is a statement
\* like any other: the n-th statement executed for a file is the n-th
\* segment of its content with its comments, and a file the loop has passed
\* without skipping it had every segment executed, the comment-only one
\* included.
C40_CommentsExecuted ==
    /\ \A c \in FileCalls :
          calls[c].op = "Execute" =>
             LET expected == ExpectedStatements[disk[calls[c].file]]
             IN /\ calls[c].index \in DOMAIN expected
                /\ calls[c].sql = expected[calls[c].index]
    /\ LoopReached =>
          \A j \in Positions :
             (j < pos /\ disk[sqlfiles[j]] # NoFile /\ ~Matching(j)) =>
                {calls[c].sql : c \in {d \in ExecutionsAt(j) : calls[d].ok}}
                   = {ExpectedStatements[disk[sqlfiles[j]]][n] :
                         n \in DOMAIN ExpectedStatements[disk[sqlfiles[j]]]}

\* a run has ended well after the backend executed the trailing comment of
\* u.sql and the statement of a.sql that begins with the header comment
C40_Witness ==
    /\ pc = "done" /\ status = <<0>>
    /\ \E c \in FileCalls :
          /\ calls[c].op = "Execute" /\ calls[c].ok
          /\ calls[c].file = PathU /\ calls[c].sql = <<"-", "-", "u">>
    /\ \E c \in FileCalls :
          /\ calls[c].op = "Execute" /\ calls[c].ok
          /\ calls[c].sql = ExpectedStatements[ContentV1][1]

====
